---- MODULE Spec2Model ----
(***************************************************************************)
(* NightCatWatermark: the bit-protocol codec of the invisible watermark    *)
(* (app/core/blind.py), the proxy cache of the preview                     *)
(* (app/workers/preview_worker.py, module level) and the preview pipeline  *)
(* (PreviewDebouncer, PreviewManager, PreviewWorker).                      *)
(*                                                                         *)
(* The specifications that share this module:                              *)
(*   SpecCodec    the pure functions of the codec, on bounded texts        *)
(*   SpecCache, SpecCacheSeq                                               *)
(*                the proxy cache under concurrent / sequential callers    *)
(*   SpecTerminate                                                         *)
(*                the proxy cache with a caller stopped by terminate()     *)
(*   SpecUi       the image list handlers of the embed tab                 *)
(*   Spec         debouncer + manager + worker threads + the main          *)
(*                thread's event queue                                     *)
(*   SpecQuiet    the same without cancel(), under fair scheduling         *)
(*   SpecEmbed    EmbedWorker and BlindWatermarkerAdapter.embed            *)
(*   SpecExtract  ExtractWorker and BlindWatermarkerAdapter.extract        *)
(*   SpecScale    proxy size and preview font size, in double precision    *)
(*   SpecRender   VisibleWatermarker: validation, spacing and tiling       *)
(*   SpecCap      image capacity and the maximum text length               *)
(*   SpecSeed     the keys embed and extract give to the codec             *)
(*   SpecRun      the batch loop of EmbedWorker.run and cancel()           *)
(*   SpecRunFair  the same, with the worker thread scheduled fairly        *)
(***************************************************************************)
EXTENDS Integers, Sequences, FiniteSets, TLC

VARIABLES
    \* ---- codec (blind.py) ----
    cText,      \* the text handed to _text_to_bits: a sequence of code points
    cBits,      \* the bit array between _text_to_bits and _bits_to_text
    cOut,       \* what _bits_to_text returned or raised
    cPc,        \* "start" -> "encoded" -> "decoded"
    \* ---- proxy cache (preview_worker.py, module level) ----
    proxy_cache,        \* _proxy_cache: entries in dict (insertion) order
    proxy_cache_lock,   \* _proxy_cache_lock: "free" or its holder
    tPc,                \* position of each caller inside _get_cached_proxy
    tKey,               \* cache_key of the call in progress (0: none)
    tProxy,             \* buffer of the local `proxy` (0: none)
    tRet,               \* buffer of the returned image (0: none)
    mutated,            \* buffers a caller has written to
    inserted,           \* history: keys stored since the last clear, in order
    dupStore,           \* history: a store found its key already present
    hitOldest,          \* history: a hit on the oldest entry of a full cache
    storesLeft,         \* stores the behaviour may still perform (bound)
    racesLeft,          \* calls that may still start during another call (bound)
    clearsLeft,         \* direct calls of clear_proxy_cache still allowed (bound)
    clrPc,              \* position of the main thread inside clear_proxy_cache
    stale,              \* history: loads a clear overtook, and what became of them
    \* ---- image list of the embed tab (widgets.py, tab_embed.py) ----
    nImages,            \* len(ImageListWidget._image_paths)
    nSelected,          \* len(list_widget.selectedItems())
    uiPc,               \* position of the main thread in the list handlers
    remLeft,            \* items remove_selected has still to remove
    listDirty,          \* history: list changed since the last clear
    reqWhileDirty,      \* history: request_preview was called while listDirty
    uiPending,          \* a preview request is pending in the debouncer
    \* ---- preview pipeline (PreviewDebouncer, PreviewManager, PreviewWorker) ----
    pending_config,     \* PreviewDebouncer._pending_config
    timerActive,        \* PreviewDebouncer._timer is armed
    nReq,               \* requests made so far; request r is the r-th call
    current_worker,     \* PreviewManager._current_worker (0: None, else job)
    nJobs,              \* PreviewWorker objects created so far
    mPc,                \* position of the main thread
    manager_mutex,      \* PreviewManager._mutex: "free" or its holder
    mWhy,               \* who called _cancel_current_worker
    mainQ,              \* queued signal deliveries posted to the main thread
    wPc,                \* position of each worker inside run()
    wAlive,             \* the worker's thread is running
    is_cancelled,       \* PreviewWorker._is_cancelled
    wConnected,         \* the worker's signals are connected to the manager
    wReq,               \* the request each worker was given
    wEmit,              \* history: what the worker emitted on its own signals
    wEmitFlag,          \* history: the flag was set when it emitted
    notif,              \* history: notifications the manager published
    bursts,             \* history: times the timer was armed from rest
    discarded,          \* history: pending requests dropped by cancel()
    emitted,            \* history: the requests preview_requested carried
    reqBurst,           \* history: the burst each request belongs to
    cancelledUpTo,      \* history: requests made before the last cancel()
    wAbortAt,           \* history: where the worker found the flag set
    \* ---- invisible embed (blind.py embed, embed_worker.py) ----
    eIn,                \* the image and the configuration of one embed job
    ePc,                \* position inside _process_single_image / embed
    eCurOk,             \* current_image exists and can be read
    eOut,               \* what BlindWatermarkerAdapter.embed returned or raised
    codecBits,          \* the payloads handed to the external codec (read_wm)
    eResult,            \* the EmbedResult of the image
    \* ---- extraction (blind.py extract, extract_worker.py) ----
    xIn,                \* the image, the password and the bit_length given
    xWire,              \* the bits the codec reads back from the image
    xPc,                \* position inside ExtractWorker.run / extract
    xCodecCalled,       \* wm.extract has been invoked
    xBits,              \* the bit array handed to _bits_to_text
    xOut,               \* the text returned, or the error raised
    \* ---- proxy size and font scale (preview_worker.py) ----
    sIn,                \* the source image's size, max_size and font_size
    sPc,                \* position: proxy made, font size scaled
    sProxy,             \* size of the proxy stored in the cache
    sOrig,              \* the original size recorded with it
    sFont,              \* preview_font_size
    \* ---- visible watermark (visible.py) and the preview's call of it ----
    rIn,                \* entry point, arguments, image and tile geometry
    rPc,                \* position inside process / process_image_object
    rArgs,              \* the arguments the compositor was called with
    rStep,              \* <<step_h, step_v>>
    rX,                 \* x of the inner loop of _tile_watermark
    rY,                 \* y of the outer loop
    rRow,               \* row
    rPastes,            \* positions the tile was pasted at
    rOut,               \* "image", or the exception raised
    \* ---- capacity (blind.py) ----
    capIn,              \* <<width, height>> of the image read
    capPc,              \* position
    capBits,            \* result of _get_image_capacity
    capMax,             \* result of get_max_text_length
    \* ---- keys of the codec (blind.py) ----
    seedCalls,          \* the WaterMark(...) constructions made so far
    \* ---- EmbedWorker.run (embed_worker.py) ----
    runIn,              \* the EmbedConfig, and what each image will do
    runPc,              \* position inside run
    runIdx,             \* idx of the for loop
    runResults,         \* results
    runSignals,         \* the signals emitted so far, in order
    runCancelled,       \* _is_cancelled
    runCancelAt         \* history: where the run was when cancel() was called

codecVars == <<cText, cBits, cOut, cPc>>

cacheVars == <<proxy_cache, proxy_cache_lock, tPc, tKey, tProxy, tRet, mutated,
               inserted, dupStore, hitOldest, storesLeft, racesLeft, clearsLeft, clrPc,
               stale>>

debounceVars ==
    <<pending_config, timerActive, nReq, bursts, discarded, emitted, reqBurst,
      cancelledUpTo>>

managerVars ==
    <<current_worker, nJobs, mPc, manager_mutex, mWhy, mainQ, notif>>

workerVars ==
    <<wPc, wAlive, is_cancelled, wConnected, wReq, wEmit, wEmitFlag, wAbortAt>>

previewVars == <<debounceVars, managerVars, workerVars>>

embedVars == <<eIn, ePc, eCurOk, eOut, codecBits, eResult>>

\* the state of the one-shot jobs (embed, extract, proxy sizing)
extractVars == <<xIn, xWire, xPc, xCodecCalled, xBits, xOut>>

scaleVars == <<sIn, sPc, sProxy, sOrig, sFont>>

renderVars == <<rIn, rPc, rArgs, rStep, rX, rY, rRow, rPastes, rOut>>

capVars == <<capIn, capPc, capBits, capMax>>

runVars ==
    <<runIn, runPc, runIdx, runResults, runSignals, runCancelled, runCancelAt>>

moreVars == <<renderVars, capVars, seedCalls, runVars>>

jobVars == <<embedVars, extractVars, scaleVars, moreVars>>

uiRest == <<nImages, nSelected, uiPc, remLeft, reqWhileDirty, uiPending>>

uiVars == <<uiRest, listDirty>>

(***************************************************************************)
(* Generic helpers                                                         *)
(***************************************************************************)
Pow2(n) == 2 ^ n

SeqOf(x, n) == [i \in 1..n |-> x]

\* concatenation of ss[lo..hi], halving the range
RECURSIVE FlattenRange(_, _, _)
FlattenRange(ss, lo, hi) ==
    IF lo > hi THEN << >>
    ELSE IF lo = hi THEN ss[lo]
    ELSE LET mid == (lo + hi) \div 2
         IN FlattenRange(ss, lo, mid) \o FlattenRange(ss, mid + 1, hi)

Flatten(ss) == FlattenRange(ss, 1, Len(ss))

(***************************************************************************)
(* blind.py: class constants                                               *)
(***************************************************************************)
MAGIC_BYTES == <<78, 67, 65, 84>>          \* b"NCAT"
MAGIC_SIZE == 32
LENGTH_SIZE == 32
HEADER_SIZE == MAGIC_SIZE + LENGTH_SIZE
MAX_TEXT_BYTES == 500

(***************************************************************************)
(* str.encode("utf-8") and bytes.decode("utf-8") as Python performs them.  *)
(* A text is a sequence of code points 0..0x10FFFF; a lone surrogate has   *)
(* no UTF-8 encoding (UnicodeEncodeError).                                 *)
(***************************************************************************)
IsSurrogate(cp) == cp >= 55296 /\ cp <= 57343

Utf8EncodeCp(cp) ==
    IF cp < 128 THEN <<cp>>
    ELSE IF cp < 2048 THEN <<192 + (cp \div 64), 128 + (cp % 64)>>
    ELSE IF cp < 65536 THEN
        <<224 + (cp \div 4096), 128 + ((cp \div 64) % 64), 128 + (cp % 64)>>
    ELSE <<240 + (cp \div 262144), 128 + ((cp \div 4096) % 64),
           128 + ((cp \div 64) % 64), 128 + (cp % 64)>>

Utf8Encodable(text) == \A i \in 1..Len(text) : ~IsSurrogate(text[i])

Utf8Encode(text) == Flatten([i \in 1..Len(text) |-> Utf8EncodeCp(text[i])])

IsCont(b) == b >= 128 /\ b <= 191

\* Strict decoder: the code points, or <<-1>> on UnicodeDecodeError (bad lead
\* byte, missing or stray continuation byte, overlong form, surrogate, value
\* above 0x10FFFF).  A sequence starts at every byte that is not a
\* continuation byte.
Utf8Width(b) ==
    IF b < 128 THEN 1
    ELSE IF b >= 194 /\ b <= 223 THEN 2
    ELSE IF b >= 224 /\ b <= 239 THEN 3
    ELSE IF b >= 240 /\ b <= 244 THEN 4
    ELSE 0

Utf8CpAt(bs, i) ==
    LET b == bs[i]
        w == Utf8Width(b)
    IN IF w = 1 THEN b
       ELSE IF w = 2 THEN (b - 192) * 64 + (bs[i + 1] - 128)
       ELSE IF w = 3 THEN (b - 224) * 4096 + (bs[i + 1] - 128) * 64
                          + (bs[i + 2] - 128)
       ELSE (b - 240) * 262144 + (bs[i + 1] - 128) * 4096
            + (bs[i + 2] - 128) * 64 + (bs[i + 3] - 128)

Utf8SeqValidAt(bs, i) ==
    LET w == Utf8Width(bs[i]) IN
    /\ w > 0
    /\ i + w - 1 <= Len(bs)
    /\ \A k \in (i + 1)..(i + w - 1) : IsCont(bs[k])
    /\ (i + w <= Len(bs)) => ~IsCont(bs[i + w])
    /\ LET cp == Utf8CpAt(bs, i) IN
         /\ (w = 3) => (cp >= 2048 /\ ~IsSurrogate(cp))
         /\ (w = 4) => (cp >= 65536 /\ cp <= 1114111)

Utf8Decode(bs) ==
    LET n == Len(bs)
        IsStart(i) == ~IsCont(bs[i])
        starts == SelectSeq([i \in 1..n |-> i], IsStart)
    IN IF n = 0 THEN << >>
       ELSE IF IsCont(bs[1]) THEN <<-1>>
       ELSE IF \E j \in 1..Len(starts) : ~Utf8SeqValidAt(bs, starts[j])
            THEN <<-1>>
       ELSE [j \in 1..Len(starts) |-> Utf8CpAt(bs, starts[j])]

(***************************************************************************)
(* Bytes <-> bits                                                          *)
(***************************************************************************)
\* as BytesToBits, least significant bit of each byte first
BytesToBits_lsbFirst(bs) ==
    [k \in 1..(8 * Len(bs)) |->
        (bs[((k - 1) \div 8) + 1] \div Pow2((k - 1) % 8)) % 2]

\* for i in range(7, -1, -1): bits.append((byte >> i) & 1)
BytesToBits(bs) ==
    [k \in 1..(8 * Len(bs)) |->
        (bs[((k - 1) \div 8) + 1] \div Pow2(7 - ((k - 1) % 8))) % 2]

\* int("".join(map(str, bits[i:i + 8])), 2) for i in range(0, n, 8): the
\* last group may hold fewer than 8 bits and is read as a shorter numeral.
GroupValue(bits, from, to) ==
    LET n == to - from + 1
        F[j \in 0..n] == IF j = 0 THEN 0 ELSE 2 * F[j - 1] + bits[from + j - 1]
    IN F[n]

BitsToBytes(bits) ==
    LET n == Len(bits)
        m == (n + 7) \div 8
    IN [j \in 1..m |->
          GroupValue(bits, 8 * (j - 1) + 1,
                     IF 8 * j <= n THEN 8 * j ELSE n)]

\* int.to_bytes(4, byteorder="big") / int.from_bytes(..., byteorder="big")
ToBytes4Big(n) ==
    <<(n \div 16777216) % 256, (n \div 65536) % 256, (n \div 256) % 256, n % 256>>

\* Python integers are unbounded; here every value of 2^31 or more is
\* represented by 2^31 - 1 (the callers only compare the result with 0 and
\* MAX_TEXT_BYTES)
FromBytesBig_little(bs) ==
    LET n == Len(bs)
        F[j \in 0..n] ==
            IF j = 0 THEN 0
            ELSE IF F[j - 1] >= 8388608 THEN 2147483647
            ELSE 256 * F[j - 1] + bs[n + 1 - j]
    IN F[n]

FromBytesBig(bs) ==
    LET F[j \in 0..Len(bs)] ==
            IF j = 0 THEN 0
            ELSE IF F[j - 1] >= 8388608 THEN 2147483647
            ELSE 256 * F[j - 1] + bs[j]
    IN F[Len(bs)]

(***************************************************************************)
(* BlindWatermarkerAdapter._text_to_bits                                   *)
(***************************************************************************)
\* as _text_to_bits, with the length field counting characters, not bytes
text_to_bits_lengthInChars(text) ==
    LET data_bytes == Utf8Encode(text)
    IN BytesToBits(MAGIC_BYTES \o ToBytes4Big(Len(text)) \o data_bytes)

text_to_bits(text) ==
    LET data_bytes == Utf8Encode(text)
        data_length == Len(data_bytes)
        length_bytes == ToBytes4Big(data_length)
        full_data == MAGIC_BYTES \o length_bytes \o data_bytes
    IN BytesToBits(full_data)

(***************************************************************************)
(* BlindWatermarkerAdapter._bits_to_text: the text, or the ValueError it   *)
(* raises.                                                                 *)
(***************************************************************************)
Ok(text) == [ok |-> TRUE, text |-> text, err |-> "none"]
Err(kind) == [ok |-> FALSE, text |-> << >>, err |-> kind]

\* as _bits_to_text, with the length checked before the magic
bits_to_text_lengthFirst(bits) ==
    IF Len(bits) < HEADER_SIZE THEN Err("missing_header")
    ELSE
      LET magic_bytes == BitsToBytes(SubSeq(bits, 1, MAGIC_SIZE))
          length_bytes == BitsToBytes(SubSeq(bits, MAGIC_SIZE + 1, HEADER_SIZE))
          data_length == FromBytesBig(length_bytes)
      IN
      IF data_length <= 0 \/ data_length > MAX_TEXT_BYTES
      THEN Err("invalid_length")
      ELSE IF magic_bytes # MAGIC_BYTES THEN Err("invalid_watermark")
      ELSE
        LET expected_total_bits == HEADER_SIZE + (data_length * 8) IN
        IF Len(bits) < expected_total_bits THEN Err("truncated")
        ELSE
          LET data_bits == SubSeq(bits, HEADER_SIZE + 1, expected_total_bits)
              decoded == Utf8Decode(BitsToBytes(data_bits))
          IN IF decoded = <<-1>> THEN Err("decode_failed") ELSE Ok(decoded)

bits_to_text(bits) ==
    IF Len(bits) < HEADER_SIZE THEN Err("missing_header")
    ELSE
      LET magic_bytes == BitsToBytes(SubSeq(bits, 1, MAGIC_SIZE)) IN
      IF magic_bytes # MAGIC_BYTES THEN Err("invalid_watermark")
      ELSE
        LET length_bytes == BitsToBytes(SubSeq(bits, MAGIC_SIZE + 1, HEADER_SIZE))
            data_length == FromBytesBig(length_bytes)
        IN
        IF data_length <= 0 \/ data_length > MAX_TEXT_BYTES
        THEN Err("invalid_length")
        ELSE
          LET expected_total_bits == HEADER_SIZE + (data_length * 8) IN
          IF Len(bits) < expected_total_bits THEN Err("truncated")
          ELSE
            LET data_bits == SubSeq(bits, HEADER_SIZE + 1, expected_total_bits)
                data_bytes == BitsToBytes(data_bits)
                decoded == Utf8Decode(data_bytes)
            IN IF decoded = <<-1>> THEN Err("decode_failed") ELSE Ok(decoded)

(***************************************************************************)
(* SpecCodec: the codec applied to bounded texts                           *)
(***************************************************************************)
MaxTextLen == 3

\* one code point of every UTF-8 width, NUL, and the widest of each width
CodePoints == {0, 65, 127, 233, 2047, 20013, 65535, 128512}

ShortTexts == UNION {[1..n -> CodePoints] : n \in 0..MaxTextLen}

\* texts around the 1-byte/2-byte boundaries of the length field and around
\* MAX_TEXT_BYTES
LongTexts ==
    {SeqOf(65, n) : n \in {255, 256, 257, 499, 500, 501}}
      \cup {SeqOf(233, 250), SeqOf(233, 251), SeqOf(128512, 125),
            SeqOf(20013, 166) \o <<65, 65>>}

Texts == ShortTexts \cup LongTexts

InitCodec ==
    /\ cText \in Texts
    /\ cBits = << >>
    /\ cOut = Err("none")
    /\ cPc = "start"

\* bits = self._text_to_bits(text)
CodecEncode ==
    /\ cPc = "start"
    /\ Utf8Encodable(cText) = TRUE
    /\ cBits' = text_to_bits(cText)
    /\ cPc' = "encoded"
    /\ UNCHANGED <<cText, cOut>>

\* extracted_text = self._bits_to_text(wm_bits)
CodecDecode ==
    /\ cPc = "encoded"
    /\ cOut' = bits_to_text(cBits)
    /\ cPc' = "decoded"
    /\ UNCHANGED <<cText, cBits>>

NextCodec ==
    (CodecEncode \/ CodecDecode)
      /\ UNCHANGED <<cacheVars, uiVars, previewVars, jobVars>>

(***************************************************************************)
(* Proxy cache: _proxy_cache, _get_cached_proxy, clear_proxy_cache         *)
(***************************************************************************)
MAX_PROXY_CACHE_SIZE == 10

NumKeys == 12          \* distinct (path, max_size) keys a caller may ask for
MaxStores == 12        \* stores performed in one behaviour
MaxUiStores == 2       \* the same, when the image list handlers run
MaxRaces == 1          \* calls that start while another call is in progress
MaxClears == 1         \* direct calls of clear_proxy_cache
MaxStoresAfterClear == 2   \* stores explored after such a call
MaxImages == 2         \* images in the list of the embed tab

Threads == {"w1", "w2"}

Keys == 1..NumKeys

Min(a, b) == IF a < b THEN a ELSE b

SetMax(S) == IF S = {} THEN 0 ELSE CHOOSE x \in S : \A y \in S : y <= x

CacheKeys(cache) == [i \in 1..Len(cache) |-> cache[i].key]

\* cache_key in _proxy_cache
HasKey(cache, k) == \E i \in 1..Len(cache) : cache[i].key = k

\* _proxy_cache[cache_key]
EntryOf(cache, k) == cache[CHOOSE i \in 1..Len(cache) : cache[i].key = k]

CacheBufs(cache) == {cache[i].buf : i \in 1..Len(cache)}

UsedBufs ==
    (CacheBufs(proxy_cache) \cup {tProxy[t] : t \in Threads}
        \cup {tRet[t] : t \in Threads}) \ {0}

\* a buffer no live object uses: what Image.copy() / resize() allocate
NewBuf == CHOOSE b \in 1..(Cardinality(UsedBufs) + 1) :
              /\ b \notin UsedBufs
              /\ \A c \in 1..(b - 1) : c \in UsedBufs

\* Image.copy(): a new buffer with the pixels of src
CopyBuf_alias(src, fresh) == src

CopyBuf(src, fresh) == fresh

\* len(_proxy_cache) >= MAX_PROXY_CACHE_SIZE
CacheFull_offByOne(cache) == Len(cache) > MAX_PROXY_CACHE_SIZE

CacheFull(cache) == Len(cache) >= MAX_PROXY_CACHE_SIZE

\* oldest_key = next(iter(_proxy_cache)); del _proxy_cache[oldest_key]
EvictOldest_popitem(cache) == SubSeq(cache, 1, Len(cache) - 1)

EvictOldest(cache) == Tail(cache)

\* _proxy_cache[cache_key] = value: a present key keeps its position
DictSet(cache, k, b) ==
    IF HasKey(cache, k)
    THEN [i \in 1..Len(cache) |->
            IF cache[i].key = k THEN [key |-> k, buf |-> b] ELSE cache[i]]
    ELSE Append(cache, [key |-> k, buf |-> b])

\* _proxy_cache.clear()
ClearAll(cache) == << >>

\* keys are opaque, so fresh keys are numbered in order of first use
KnownMax ==
    SetMax({proxy_cache[i].key : i \in 1..Len(proxy_cache)}
             \cup {tKey[t] : t \in Threads})

\* the keys a new call names: the key used first, the oldest and the newest
\* entry, a key another call is loading, and a fresh key
CallableKeys ==
    ({1, KnownMax + 1}
       \cup (IF proxy_cache = << >> THEN {}
             ELSE {proxy_cache[1].key, proxy_cache[Len(proxy_cache)].key})
       \cup {tKey[t] : t \in Threads}) \cap Keys

\* history of the loads that a clear_proxy_cache overtook: the callers that
\* had loaded their source and not yet stored the proxy when a clear
\* returned, the cached buffers such callers stored, and whether a lookup
\* hit one of these
NoStale == [loads |-> {}, bufs |-> {}, hit |-> FALSE]

HitStale(h, buf) == h.hit \/ buf \in h.bufs

StoreStale(h, t, buf, cache) ==
    [loads |-> h.loads \ {t},
     bufs |-> (IF t \in h.loads THEN h.bufs \cup {buf} ELSE h.bufs \ {buf})
                 \cap CacheBufs(cache),
     hit |-> h.hit]

ClearStale(h, overtaken) ==
    [loads |-> h.loads \cup overtaken, bufs |-> {}, hit |-> h.hit]

InFlight == {t \in Threads : tPc[t] \in {"lock1", "check", "load", "lock2", "store"}}

InitCache(stores, races, clears) ==
    /\ storesLeft = stores
    /\ racesLeft = races
    /\ clearsLeft = clears
    /\ proxy_cache = << >>
    /\ proxy_cache_lock = "free"
    /\ tPc = [t \in Threads |-> "idle"]
    /\ tKey = [t \in Threads |-> 0]
    /\ tProxy = [t \in Threads |-> 0]
    /\ tRet = [t \in Threads |-> 0]
    /\ mutated = {}
    /\ inserted = << >>
    /\ dupStore = FALSE
    /\ hitOldest = FALSE
    /\ clrPc = "idle"
    /\ stale = NoStale

\* _get_cached_proxy(image_path, max_size): cache_key = f"{image_path}:{max_size}"
GetProxyCall(t, k) ==
    /\ tPc[t] = "idle"
    /\ k \in CallableKeys
    /\ Cardinality(InFlight) < storesLeft
    /\ IF InFlight = {} /\ \A u \in Threads : tPc[u] = "idle"
       THEN t = "w1" /\ UNCHANGED racesLeft
       ELSE IF \A u \in Threads \ {t} : tPc[u] = "idle"
       THEN UNCHANGED racesLeft
       ELSE racesLeft > 0 /\ racesLeft' = racesLeft - 1
    /\ tPc' = [tPc EXCEPT ![t] = "lock1"]
    /\ tKey' = [tKey EXCEPT ![t] = k]
    /\ UNCHANGED <<proxy_cache, proxy_cache_lock, tProxy, tRet, mutated,
                   inserted, dupStore, hitOldest, storesLeft, clearsLeft, clrPc>>
    /\ UNCHANGED stale

\* with QMutexLocker(_proxy_cache_lock):   (fast path)
GetProxyLock1(t) ==
    /\ tPc[t] = "lock1"
    /\ proxy_cache_lock = "free"
    /\ proxy_cache_lock' = t
    /\ tPc' = [tPc EXCEPT ![t] = "check"]
    /\ UNCHANGED <<proxy_cache, tKey, tProxy, tRet, mutated, inserted,
                   dupStore, hitOldest, storesLeft, racesLeft, clearsLeft, clrPc>>
    /\ UNCHANGED stale

\* if cache_key in _proxy_cache: return proxy.copy(), orig_size
GetProxyHit(t) ==
    /\ tPc[t] = "check"
    /\ HasKey(proxy_cache, tKey[t])
    /\ LET e == EntryOf(proxy_cache, tKey[t])
           r == CopyBuf(e.buf, NewBuf)
       IN /\ tRet' = [tRet EXCEPT ![t] = r]
          /\ mutated' = IF e.buf \in mutated THEN mutated \cup {r} ELSE mutated
    /\ hitOldest' = (hitOldest \/ (CacheFull(proxy_cache)
                                     /\ proxy_cache[1].key = tKey[t]))
    /\ proxy_cache_lock' = "free"
    /\ tPc' = [tPc EXCEPT ![t] = "ret"]
    /\ UNCHANGED <<proxy_cache, tKey, tProxy, inserted, dupStore, storesLeft, racesLeft, clearsLeft, clrPc>>
    /\ stale' = [stale EXCEPT !.hit = HitStale(stale, EntryOf(proxy_cache, tKey[t]).buf)]

\* the key is absent: leave the locked block and take the slow path
GetProxyMiss(t) ==
    /\ tPc[t] = "check"
    /\ ~HasKey(proxy_cache, tKey[t])
    /\ proxy_cache_lock' = "free"
    /\ tPc' = [tPc EXCEPT ![t] = "load"]
    /\ UNCHANGED <<proxy_cache, tKey, tProxy, tRet, mutated, inserted,
                   dupStore, hitOldest, storesLeft, racesLeft, clearsLeft, clrPc>>
    /\ UNCHANGED stale

\* Image.open ... resize/copy ... convert("RGBA"): the local proxy
GetProxyLoad(t) ==
    /\ tPc[t] = "load"
    /\ tProxy' = [tProxy EXCEPT ![t] = NewBuf]
    /\ tPc' = [tPc EXCEPT ![t] = "lock2"]
    /\ UNCHANGED <<proxy_cache, proxy_cache_lock, tKey, tRet, mutated,
                   inserted, dupStore, hitOldest, storesLeft, racesLeft, clearsLeft, clrPc>>
    /\ UNCHANGED stale

\* Image.open raises (file missing or unreadable): the exception leaves
\* _get_cached_proxy and nothing is stored
GetProxyLoadFail(t) ==
    /\ tPc[t] = "load"
    /\ tPc' = [tPc EXCEPT ![t] = "idle"]
    /\ tKey' = [tKey EXCEPT ![t] = 0]
    /\ UNCHANGED <<proxy_cache, proxy_cache_lock, tProxy, tRet, mutated,
                   inserted, dupStore, hitOldest, storesLeft, racesLeft, clearsLeft, clrPc>>
    /\ UNCHANGED stale

\* with QMutexLocker(_proxy_cache_lock):   (store)
GetProxyLock2(t) ==
    /\ tPc[t] = "lock2"
    /\ proxy_cache_lock = "free"
    /\ proxy_cache_lock' = t
    /\ tPc' = [tPc EXCEPT ![t] = "store"]
    /\ UNCHANGED <<proxy_cache, tKey, tProxy, tRet, mutated, inserted,
                   dupStore, hitOldest, storesLeft, racesLeft, clearsLeft, clrPc>>
    /\ UNCHANGED stale

\* evict the oldest entry if full; store proxy.copy(); return proxy
GetProxyStore(t) ==
    /\ tPc[t] = "store"
    /\ LET base == IF CacheFull(proxy_cache) THEN EvictOldest(proxy_cache)
                   ELSE proxy_cache
           c == CopyBuf(tProxy[t], NewBuf)
       IN proxy_cache' = DictSet(base, tKey[t], c)
    /\ dupStore' = (dupStore \/ HasKey(proxy_cache, tKey[t]))
    /\ inserted' = Append(inserted, tKey[t])
    /\ storesLeft' = storesLeft - 1
    /\ UNCHANGED <<racesLeft, clearsLeft>>
    /\ tRet' = [tRet EXCEPT ![t] = tProxy[t]]
    /\ proxy_cache_lock' = "free"
    /\ tPc' = [tPc EXCEPT ![t] = "ret"]
    /\ UNCHANGED <<tKey, tProxy, mutated, hitOldest, clrPc>>
    /\ stale' = StoreStale(stale, t, CopyBuf(tProxy[t], NewBuf), proxy_cache')

\* the caller writes into the image it was given
CallerMutates(t) ==
    /\ tPc[t] = "ret"
    /\ tRet[t] \notin mutated
    /\ mutated' = mutated \cup {tRet[t]}
    /\ UNCHANGED <<proxy_cache, proxy_cache_lock, tPc, tKey, tProxy, tRet,
                   inserted, dupStore, hitOldest, storesLeft, racesLeft, clearsLeft, clrPc>>
    /\ UNCHANGED stale

\* the caller is done with the image
CallerDone(t) ==
    /\ tPc[t] = "ret"
    /\ tPc' = [tPc EXCEPT ![t] = "idle"]
    /\ tKey' = [tKey EXCEPT ![t] = 0]
    /\ tProxy' = [tProxy EXCEPT ![t] = 0]
    /\ tRet' = [tRet EXCEPT ![t] = 0]
    /\ mutated' = mutated \cap
                    (CacheBufs(proxy_cache)
                       \cup {tRet[u] : u \in Threads \ {t}}
                       \cup {tProxy[u] : u \in Threads \ {t}})
    /\ UNCHANGED <<proxy_cache, proxy_cache_lock, inserted, dupStore,
                   hitOldest, storesLeft, racesLeft, clearsLeft, clrPc>>
    /\ UNCHANGED stale

\* clear_proxy_cache() is entered (PreviewManager.clear_cache)
ClearCall ==
    /\ clrPc = "idle"
    /\ clrPc' = "want"
    /\ UNCHANGED <<proxy_cache, proxy_cache_lock, tPc, tKey, tProxy, tRet,
                   mutated, inserted, dupStore, hitOldest, storesLeft,
                   racesLeft, clearsLeft>>
    /\ UNCHANGED stale

\* with QMutexLocker(_proxy_cache_lock):
ClearLock ==
    /\ clrPc = "want"
    /\ proxy_cache_lock = "free"
    /\ proxy_cache_lock' = "main"
    /\ clrPc' = "locked"
    /\ UNCHANGED <<proxy_cache, tPc, tKey, tProxy, tRet, mutated, inserted,
                   dupStore, hitOldest, storesLeft, racesLeft, clearsLeft>>
    /\ UNCHANGED stale

\* _proxy_cache.clear(); the lock is released and the function returns
ClearDo ==
    /\ clrPc = "locked"
    /\ proxy_cache' = ClearAll(proxy_cache)
    /\ proxy_cache_lock' = "free"
    /\ clrPc' = "idle"
    /\ listDirty' = FALSE
    /\ inserted' = << >>
    /\ dupStore' = FALSE
    /\ hitOldest' = FALSE
    /\ mutated' = mutated \cap (CacheBufs(ClearAll(proxy_cache))
                                  \cup {tRet[u] : u \in Threads}
                                  \cup {tProxy[u] : u \in Threads})
    /\ UNCHANGED <<tPc, tKey, tProxy, tRet, storesLeft, racesLeft, clearsLeft>>
    /\ stale' = ClearStale(stale, {t \in Threads : tPc[t] = "lock2"})

\* some code of the main thread calls clear_proxy_cache directly
DirectClear ==
    /\ clearsLeft > 0
    /\ clrPc = "idle"
    /\ clrPc' = "want"
    /\ clearsLeft' = clearsLeft - 1
    /\ storesLeft' = Min(storesLeft, MaxStoresAfterClear)
    /\ UNCHANGED <<proxy_cache, proxy_cache_lock, tPc, tKey, tProxy, tRet,
                   mutated, inserted, dupStore, hitOldest, racesLeft>>
    /\ UNCHANGED stale

\* _cancel_current_worker: terminate() stops the worker's thread while it
\* is inside _get_cached_proxy, wherever it is; the QMutexLocker of a
\* thread stopped inside a locked block never unlocks
Terminate(t) ==
    /\ tPc[t] \in {"lock1", "check", "load", "lock2", "store"}
    /\ tPc' = [tPc EXCEPT ![t] = "killed"]
    /\ UNCHANGED <<proxy_cache, proxy_cache_lock, tKey, tProxy, tRet, mutated,
                   inserted, dupStore, hitOldest, storesLeft, racesLeft,
                   clearsLeft, clrPc, stale>>

CallerStep(t) ==
    \/ \E k \in Keys : GetProxyCall(t, k)
    \/ GetProxyLock1(t)
    \/ GetProxyHit(t)
    \/ GetProxyMiss(t)
    \/ GetProxyLoad(t)
    \/ GetProxyLoadFail(t)
    \/ GetProxyLock2(t)
    \/ GetProxyStore(t)
    \/ CallerMutates(t)
    \/ CallerDone(t)

(***************************************************************************)
(* Image list of the embed tab: ImageListWidget.add_images,                *)
(* remove_selected, clear_images, the selection signal, and                *)
(* EmbedTab._on_images_changed / _on_selection_changed / _request_preview. *)
(* The handlers run on the main thread, one at a time; the callers of the  *)
(* cache run on worker threads and interleave with them.                   *)
(***************************************************************************)
InitUi ==
    /\ nImages = 0
    /\ nSelected = 0
    /\ uiPc = "idle"
    /\ remLeft = 0
    /\ listDirty = FALSE
    /\ reqWhileDirty = FALSE
    /\ uiPending = FALSE

\* add_images(paths): n of the paths are new; images_changed is emitted
AddImages(n) ==
    /\ uiPc = "idle"
    /\ n \in 0..(MaxImages - nImages)
    /\ nImages' = nImages + n
    /\ listDirty' = (listDirty \/ n > 0)
    /\ uiPc' = "changed"
    /\ UNCHANGED <<nSelected, remLeft, reqWhileDirty, uiPending>>

\* clear_images(): the selection empties with the list (the selection
\* handler gets an empty list and requests nothing); images_changed
ClearImages ==
    /\ uiPc = "idle"
    /\ nImages' = 0
    /\ nSelected' = 0
    /\ listDirty' = (listDirty \/ nImages > 0)
    /\ uiPc' = "changed"
    /\ UNCHANGED <<remLeft, reqWhileDirty, uiPending>>

\* the user changes the selection: itemSelectionChanged ->
\* EmbedTab._on_selection_changed -> _request_preview if something is selected
UserSelects(n) ==
    /\ uiPc = "idle"
    /\ n \in 0..nImages
    /\ n # nSelected
    /\ nSelected' = n
    /\ uiPending' = (uiPending \/ n > 0)
    /\ reqWhileDirty' = (reqWhileDirty \/ (n > 0 /\ listDirty))
    /\ UNCHANGED <<nImages, uiPc, remLeft, listDirty>>

\* remove_selected(): selected_items = self.list_widget.selectedItems()
RemoveSelectedBegin ==
    /\ uiPc = "idle"
    /\ remLeft' = nSelected
    /\ uiPc' = "removing"
    /\ UNCHANGED <<nImages, nSelected, listDirty, reqWhileDirty, uiPending>>

\* one turn of the loop: the path leaves _image_paths and takeItem removes
\* the item; the selection shrinks, itemSelectionChanged is emitted and
\* _on_selection_changed requests a preview if items remain selected
RemoveSelectedOne ==
    /\ uiPc = "removing"
    /\ remLeft > 0
    /\ remLeft' = remLeft - 1
    /\ nImages' = nImages - 1
    /\ nSelected' = nSelected - 1
    /\ listDirty' = TRUE
    /\ uiPending' = (uiPending \/ nSelected - 1 > 0)
    /\ reqWhileDirty' = (reqWhileDirty \/ nSelected - 1 > 0)
    /\ UNCHANGED uiPc

\* the loop is over: images_changed is emitted
RemoveSelectedEnd ==
    /\ uiPc = "removing"
    /\ remLeft = 0
    /\ uiPc' = "changed"
    /\ UNCHANGED <<nImages, nSelected, remLeft, listDirty, reqWhileDirty,
                   uiPending>>

\* as _on_images_changed, without the call of clear_cache
OnImagesChanged_noClear ==
    /\ uiPc = "changed"
    /\ uiPc' = "clearing"
    /\ UNCHANGED cacheVars
    /\ UNCHANGED <<nImages, nSelected, remLeft, listDirty, reqWhileDirty,
                   uiPending>>

\* _on_images_changed(images): self._preview_manager.clear_cache()
OnImagesChanged ==
    /\ uiPc = "changed"
    /\ ClearCall
    /\ uiPc' = "clearing"
    /\ UNCHANGED <<nImages, nSelected, remLeft, listDirty, reqWhileDirty,
                   uiPending>>

\* clear_cache() has returned: `if images: self._request_preview()`
OnImagesChangedRequest ==
    /\ uiPc = "clearing"
    /\ clrPc = "idle"
    /\ UNCHANGED cacheVars
    /\ uiPending' = (uiPending \/ nImages > 0)
    /\ uiPc' = "idle"
    /\ UNCHANGED <<nImages, nSelected, remLeft, listDirty, reqWhileDirty>>

\* the debounce timer fires and takes the pending request
UiTimeout ==
    /\ uiPc = "idle"
    /\ uiPending
    /\ uiPending' = FALSE
    /\ UNCHANGED <<nImages, nSelected, uiPc, remLeft, listDirty, reqWhileDirty>>

UiStep ==
    \/ (\E n \in 0..MaxImages : AddImages(n)) /\ UNCHANGED cacheVars
    \/ ClearImages /\ UNCHANGED cacheVars
    \/ (\E n \in 0..MaxImages : UserSelects(n)) /\ UNCHANGED cacheVars
    \/ RemoveSelectedBegin /\ UNCHANGED cacheVars
    \/ RemoveSelectedOne /\ UNCHANGED cacheVars
    \/ RemoveSelectedEnd /\ UNCHANGED cacheVars
    \/ OnImagesChanged
    \/ ClearLock /\ UNCHANGED uiVars
    \/ ClearDo /\ UNCHANGED uiRest
    \/ OnImagesChangedRequest
    \/ UiTimeout /\ UNCHANGED cacheVars

\* SpecCache: concurrent callers of the cache and a thread that clears it
NextCache ==
    \/ (\E t \in Threads : CallerStep(t))
         /\ UNCHANGED <<codecVars, uiVars, previewVars, jobVars>>
    \/ (DirectClear \/ ClearLock)
         /\ UNCHANGED <<codecVars, uiVars, previewVars, jobVars>>
    \/ ClearDo /\ UNCHANGED <<codecVars, uiRest, previewVars, jobVars>>

\* SpecUi: the image list handlers of the embed tab over the same cache
\* the callers of the cache, clear_proxy_cache, and terminate()
NextTerminate ==
    \/ (\E t \in Threads : CallerStep(t) \/ Terminate(t))
         /\ UNCHANGED <<codecVars, uiVars, previewVars, jobVars>>
    \/ (DirectClear \/ ClearLock)
         /\ UNCHANGED <<codecVars, uiVars, previewVars, jobVars>>
    \/ ClearDo /\ UNCHANGED <<codecVars, uiRest, previewVars, jobVars>>

NextUi ==
    \/ (\E t \in Threads : CallerStep(t))
         /\ UNCHANGED <<codecVars, uiVars, previewVars, jobVars>>
    \/ UiStep /\ UNCHANGED <<codecVars, previewVars, jobVars>>

(***************************************************************************)
(* Preview pipeline: PreviewDebouncer, PreviewManager, PreviewWorker.      *)
(*                                                                         *)
(* Threads: the main thread runs the event loop (timer timeouts, calls of  *)
(* request_preview and cancel, delivery of queued signals); every          *)
(* PreviewWorker runs run() on a thread of its own.  The manager's slots   *)
(* live on the main thread, so a signal a worker emits is queued to the    *)
(* main thread and delivered by the event loop; a delivery whose           *)
(* connection was disconnected in the meantime is discarded (the comment   *)
(* of _cancel_current_worker: "Disconnect signals to prevent late          *)
(* emissions").                                                            *)
(***************************************************************************)
MaxRequests == 3       \* calls of request_preview in one behaviour
MaxJobs == 2           \* PreviewWorker objects created in one behaviour

Jobs == 1..MaxJobs

\* the configurations that decide the path through run(): a valid request,
\* visible watermark disabled, blank text, no (existing) image
ConfigKinds == {"plain", "disabled", "blank", "noimage"}

\* _pending_config = None
NoConfig == [id |-> 0, kind |-> "none"]

InitPreview ==
    /\ pending_config = NoConfig
    /\ timerActive = FALSE
    /\ nReq = 0
    /\ current_worker = 0
    /\ nJobs = 0
    /\ mPc = "loop"
    /\ manager_mutex = "free"
    /\ mWhy = "none"
    /\ mainQ = << >>
    /\ wPc = [j \in Jobs |-> "none"]
    /\ wAlive = [j \in Jobs |-> FALSE]
    /\ is_cancelled = [j \in Jobs |-> FALSE]
    /\ wConnected = [j \in Jobs |-> FALSE]
    /\ wReq = [j \in Jobs |-> NoConfig]
    /\ wEmit = [j \in Jobs |-> "none"]
    /\ wEmitFlag = [j \in Jobs |-> FALSE]
    /\ notif = << >>
    /\ bursts = 0
    /\ discarded = 0
    /\ emitted = << >>
    /\ reqBurst = << >>
    /\ cancelledUpTo = 0
    /\ wAbortAt = [j \in Jobs |-> "none"]

---------------------------------------------------------------------------
\* self._pending_config = PreviewConfig(...)
SetPending_keepFirst(old, new) == IF old = NoConfig THEN new ELSE old

SetPending(old, new) == new

\* PreviewManager.request_preview -> PreviewDebouncer.request_preview:
\* the pending request is overwritten and the single-shot timer restarted
request_preview(kind) ==
    /\ mPc = "loop"
    /\ nReq < MaxRequests
    /\ nReq' = nReq + 1
    /\ pending_config' = SetPending(pending_config, [id |-> nReq + 1, kind |-> kind])
    /\ timerActive' = TRUE
    /\ bursts' = IF timerActive THEN bursts ELSE bursts + 1
    /\ reqBurst' = Append(reqBurst, IF timerActive THEN bursts ELSE bursts + 1)
    /\ UNCHANGED <<discarded, emitted, cancelledUpTo, managerVars, workerVars>>

\* the timer expires: _on_timeout emits preview_requested(pending), whose
\* slot _start_preview_worker runs inside the emit; it begins with
\* _cancel_current_worker
on_timeout ==
    /\ mPc = "loop"
    /\ timerActive
    /\ nJobs < MaxJobs
    /\ timerActive' = FALSE
    /\ IF pending_config # NoConfig
       THEN /\ mPc' = "c_begin"
            /\ mWhy' = "start"
            /\ emitted' = Append(emitted, pending_config.id)
       ELSE UNCHANGED <<mPc, mWhy, emitted>>
    /\ UNCHANGED <<pending_config, nReq, bursts, discarded, reqBurst,
                   cancelledUpTo,
                   current_worker, nJobs, manager_mutex, mainQ, notif,
                   workerVars>>

\* PreviewDebouncer.cancel: self._pending_config = None
CancelPending_keep(old) == old

CancelPending(old) == NoConfig

\* PreviewManager.cancel(): PreviewDebouncer.cancel() stops the timer and
\* drops the pending request; then _cancel_current_worker
manager_cancel ==
    /\ mPc = "loop"
    /\ timerActive' = FALSE
    /\ pending_config' = CancelPending(pending_config)
    /\ discarded' = IF pending_config # NoConfig THEN discarded + 1 ELSE discarded
    /\ mPc' = "c_begin"
    /\ mWhy' = "cancel"
    /\ cancelledUpTo' = nReq
    /\ UNCHANGED <<nReq, bursts, emitted, reqBurst, current_worker, nJobs,
                   manager_mutex,                   mainQ, notif, workerVars>>

\* _cancel_current_worker: `with QMutexLocker(self._mutex):` and
\* `if self._current_worker is not None: self._current_worker.cancel()`,
\* which sets the flag
cancel_flag ==
    /\ mPc = "c_begin"
    /\ manager_mutex = "free"
    /\ manager_mutex' = "main"
    /\ IF current_worker # 0
       THEN /\ is_cancelled' = [is_cancelled EXCEPT ![current_worker] = TRUE]
            /\ mPc' = "c_disconnect"
       ELSE /\ mPc' = "c_end"
            /\ UNCHANGED is_cancelled
    /\ UNCHANGED <<debounceVars, current_worker, nJobs, mWhy, mainQ, notif,
                   wPc, wAlive, wConnected, wReq, wEmit, wEmitFlag, wAbortAt>>

\* after the disconnect the worker's signals reach no slot
DisconnectAll_none(conn, j) == conn

DisconnectAll(conn, j) == [conn EXCEPT ![j] = FALSE]

\* preview_ready / preview_error / finished .disconnect(); quit() (the
\* worker runs no event loop, so quit() changes nothing)
cancel_disconnect ==
    /\ mPc = "c_disconnect"
    /\ wConnected' = DisconnectAll(wConnected, current_worker)
    /\ mPc' = "c_wait"
    /\ UNCHANGED <<debounceVars, current_worker, nJobs, manager_mutex, mWhy,
                   mainQ, notif,
                   wPc, wAlive, is_cancelled, wReq, wEmit, wEmitFlag, wAbortAt>>

\* wait(50) returns True: the worker's thread has ended
cancel_wait_finished ==
    /\ mPc \in {"c_wait", "c_wait2"}
    /\ ~wAlive[current_worker]
    /\ mPc' = "c_end"
    /\ UNCHANGED <<debounceVars, current_worker, nJobs, manager_mutex, mWhy,
                   mainQ, notif,
                   workerVars>>

\* wait(50) returns False: the thread is still running; terminate()
cancel_wait_timeout ==
    /\ mPc = "c_wait"
    /\ wAlive[current_worker]
    /\ mPc' = "c_wait2"
    /\ UNCHANGED <<debounceVars, current_worker, nJobs, manager_mutex, mWhy,
                   mainQ, notif,
                   workerVars>>

\* terminate() takes effect during the second wait(50): the thread is
\* stopped wherever it is
cancel_terminated ==
    /\ mPc = "c_wait2"
    /\ wAlive[current_worker]
    /\ wAlive' = [wAlive EXCEPT ![current_worker] = FALSE]
    /\ wPc' = [wPc EXCEPT ![current_worker] = "killed"]
    /\ mPc' = "c_end"
    /\ UNCHANGED <<debounceVars, current_worker, nJobs, manager_mutex, mWhy,
                   mainQ, notif,
                   is_cancelled, wConnected, wReq, wEmit, wEmitFlag, wAbortAt>>

\* terminate() takes effect after the manager stopped waiting
terminate_late(j) ==
    /\ j # current_worker
    /\ is_cancelled[j]
    /\ wAlive[j]
    /\ wAlive' = [wAlive EXCEPT ![j] = FALSE]
    /\ wPc' = [wPc EXCEPT ![j] = "killed"]
    /\ UNCHANGED <<debounceVars, managerVars, is_cancelled, wConnected, wReq,
                   wEmit, wEmitFlag, wAbortAt>>

\* the second wait(50) times out as well (terminate() stops a thread only
\* when the operating system gets to it); its result is not looked at
cancel_wait2_timeout ==
    /\ mPc = "c_wait2"
    /\ wAlive[current_worker]
    /\ mPc' = "c_end"
    /\ UNCHANGED <<debounceVars, current_worker, nJobs, manager_mutex, mWhy,
                   mainQ, notif,
                   workerVars>>

\* deleteLater(); self._current_worker = None; the locked block ends and
\* the function returns to its caller
cancel_end ==
    /\ mPc = "c_end"
    /\ current_worker' = 0
    /\ manager_mutex' = "free"
    /\ mPc' = IF mWhy = "start" THEN "s_start" ELSE "loop"
    /\ mWhy' = IF mWhy = "start" THEN mWhy ELSE "none"
    /\ UNCHANGED <<debounceVars, nJobs, mainQ, notif, workerVars>>

\* preview_started.emit()
EmitStarted_none(log, j) == log

EmitStarted_twice(log, j) ==
    Append(Append(log, [kind |-> "started", job |-> j]),
           [kind |-> "started", job |-> j])

EmitStarted(log, j) == Append(log, [kind |-> "started", job |-> j])

\* _start_preview_worker after the cancel: emit preview_started, create the
\* worker, connect its three signals, start it; back in _on_timeout the
\* pending request is cleared
start_preview_worker ==
    /\ mPc = "s_start"
    /\ LET j == nJobs + 1 IN
         /\ notif' = EmitStarted(notif, j)
         /\ nJobs' = j
         /\ current_worker' = j
         /\ wReq' = [wReq EXCEPT ![j] = pending_config]
         /\ wConnected' = [wConnected EXCEPT ![j] = TRUE]
         /\ wAlive' = [wAlive EXCEPT ![j] = TRUE]
         /\ wPc' = [wPc EXCEPT ![j] = "cp1"]
    /\ pending_config' = NoConfig
    /\ mPc' = "loop"
    /\ mWhy' = "none"
    /\ UNCHANGED <<timerActive, nReq, bursts, discarded, emitted, reqBurst,
                   cancelledUpTo,
                   manager_mutex, mainQ, is_cancelled, wEmit, wEmitFlag,
                   wAbortAt>>

\* as Delivered, a queued delivery outliving its connection
Delivered_always(conn, e) == TRUE

\* a queued delivery reaches its slot only while the connection exists
Delivered(conn, e) == conn[e.job]

\* the event loop delivers the oldest queued signal: _on_preview_ready and
\* _on_preview_error publish it, _on_worker_finished empties the slot;
\* a delivery whose connection is gone is discarded
deliver ==
    /\ mPc = "loop"
    /\ mainQ # << >>
    /\ LET e == Head(mainQ) IN
         /\ mainQ' = Tail(mainQ)
         /\ IF ~Delivered(wConnected, e)
            THEN UNCHANGED <<notif, current_worker>>
            ELSE IF e.kind = "finished"
            THEN current_worker' = 0 /\ UNCHANGED notif
            ELSE /\ notif' = Append(notif, [kind |-> e.kind, job |-> e.job])
                 /\ UNCHANGED current_worker
    /\ UNCHANGED <<debounceVars, nJobs, mPc, manager_mutex, mWhy, workerVars>>

---------------------------------------------------------------------------
\* PreviewWorker.run(), one step per checkpoint, call or emit

Kind(j) == wReq[j].kind

\* as Post, the signal reaching no slot
Post_unconnected(kind, j) == mainQ

\* signal.emit(): queued to the main thread if the signal is connected
Post(kind, j) ==
    IF wConnected[j] THEN Append(mainQ, [kind |-> kind, job |-> j]) ELSE mainQ

\* a worker found the flag set and returns, emitting nothing
Abort(j) ==
    /\ wPc' = [wPc EXCEPT ![j] = "fin"]
    /\ wAbortAt' = [wAbortAt EXCEPT ![j] = wPc[j]]
    /\ UNCHANGED <<debounceVars, managerVars, wAlive, is_cancelled, wConnected,
                   wReq, wEmit, wEmitFlag>>

\* a worker moves to pc, emitting nothing
Goto(j, pc) ==
    /\ wPc' = [wPc EXCEPT ![j] = pc]
    /\ UNCHANGED <<debounceVars, managerVars, wAlive, is_cancelled, wConnected,
                   wReq, wEmit, wEmitFlag, wAbortAt>>

\* a worker emits preview_ready ("updated") or preview_error ("error")
EmitAndGoto(j, kind, pc) ==
    /\ wPc' = [wPc EXCEPT ![j] = pc]
    /\ mainQ' = Post(kind, j)
    /\ wEmit' = [wEmit EXCEPT ![j] = kind]
    /\ wEmitFlag' = [wEmitFlag EXCEPT ![j] = is_cancelled[j]]
    /\ UNCHANGED <<debounceVars, current_worker, nJobs, mPc, manager_mutex, mWhy,
                   notif,
                   wAlive, is_cancelled, wConnected, wReq, wAbortAt>>

\* a checkpoint: `if self._is_cancelled: return`
Checkpoint_skipped(j, at, next) ==
    /\ wPc[j] = at
    /\ Goto(j, next)

Checkpoint(j, at, next) ==
    /\ wPc[j] = at
    /\ IF is_cancelled[j] THEN Abort(j) ELSE Goto(j, next)

\* as run_validate, returning without the emit
run_validate_silent(j) ==
    /\ wPc[j] = "validate"
    /\ IF Kind(j) = "noimage" THEN Goto(j, "fin")
       ELSE Goto(j, "fetch")

\* `if not image_path or not image_path.exists(): preview_error.emit(...)`
run_validate(j) ==
    /\ wPc[j] = "validate"
    /\ IF Kind(j) = "noimage" THEN EmitAndGoto(j, "error", "fin")
       ELSE Goto(j, "fetch")

\* proxy_image, original_size = _get_cached_proxy(...): returns or raises
run_fetch(j) ==
    /\ wPc[j] = "fetch"
    /\ (Goto(j, "cp2") \/ Goto(j, "except"))

\* watermark disabled: emit the proxy; blank text: emit an error
run_mode(j) ==
    /\ wPc[j] = "mode"
    /\ IF Kind(j) = "disabled" THEN EmitAndGoto(j, "updated", "fin")
       ELSE IF Kind(j) = "blank" THEN EmitAndGoto(j, "error", "fin")
       ELSE Goto(j, "cp3")

\* watermarker.process_image_object(...): returns or raises
run_composite(j) ==
    /\ wPc[j] = "composite"
    /\ (Goto(j, "cp4") \/ Goto(j, "except"))

\* pixmap = pil_image_to_qpixmap(result); self.preview_ready.emit(pixmap)
run_emit_ready(j) ==
    /\ wPc[j] = "emit"
    /\ EmitAndGoto(j, "updated", "fin")

\* except Exception: `if not self._is_cancelled:`
run_except(j) ==
    /\ wPc[j] = "except"
    /\ IF is_cancelled[j] THEN Abort(j) ELSE Goto(j, "emit_error")

\* self.preview_error.emit(...)
run_emit_error(j) ==
    /\ wPc[j] = "emit_error"
    /\ EmitAndGoto(j, "error", "fin")

\* run() has returned: QThread emits finished and the thread ends
run_finished(j) ==
    /\ wPc[j] = "fin"
    /\ wPc' = [wPc EXCEPT ![j] = "done"]
    /\ wAlive' = [wAlive EXCEPT ![j] = FALSE]
    /\ mainQ' = Post("finished", j)
    /\ UNCHANGED <<debounceVars, current_worker, nJobs, mPc, manager_mutex, mWhy,
                   notif,
                   is_cancelled, wConnected, wReq, wEmit, wEmitFlag, wAbortAt>>

WorkerStep(j) ==
    \/ Checkpoint(j, "cp1", "validate")
    \/ run_validate(j)
    \/ run_fetch(j)
    \/ Checkpoint(j, "cp2", "mode")
    \/ run_mode(j)
    \/ Checkpoint(j, "cp3", "composite")
    \/ run_composite(j)
    \/ Checkpoint(j, "cp4", "emit")
    \/ run_emit_ready(j)
    \/ run_except(j)
    \/ run_emit_error(j)
    \/ run_finished(j)

MainStep ==
    \/ \E kind \in ConfigKinds : request_preview(kind)
    \/ on_timeout
    \/ manager_cancel
    \/ cancel_flag
    \/ cancel_disconnect
    \/ cancel_wait_finished
    \/ cancel_wait_timeout
    \/ cancel_terminated
    \/ cancel_wait2_timeout
    \/ \E j \in Jobs : terminate_late(j)
    \/ cancel_end
    \/ start_preview_worker
    \/ deliver

\* what the main thread does by itself: the timer, the steps of
\* _cancel_current_worker and _start_preview_worker, the event queue
MainProgress ==
    \/ on_timeout
    \/ cancel_flag
    \/ cancel_disconnect
    \/ cancel_wait_finished
    \/ cancel_wait_timeout
    \/ cancel_terminated
    \/ cancel_wait2_timeout
    \/ (\E j \in Jobs : terminate_late(j))
    \/ cancel_end
    \/ start_preview_worker
    \/ deliver

\* the pipeline when PreviewManager.cancel() is never called
NextQuiet ==
    \/ ((\E kind \in ConfigKinds : request_preview(kind)) \/ MainProgress)
         /\ UNCHANGED <<codecVars, cacheVars, uiVars, jobVars>>
    \/ (\E j \in Jobs : wAlive[j] /\ WorkerStep(j))
         /\ UNCHANGED <<codecVars, cacheVars, uiVars, jobVars>>

NextPreview ==
    \/ MainStep /\ UNCHANGED <<codecVars, cacheVars, uiVars, jobVars>>
    \/ (\E j \in Jobs : wAlive[j] /\ WorkerStep(j))
         /\ UNCHANGED <<codecVars, cacheVars, uiVars, jobVars>>


(***************************************************************************)
(* Invisible embed: EmbedWorker._process_single_image and                  *)
(* BlindWatermarkerAdapter.embed with get_max_text_length and              *)
(* _get_image_capacity.  The external codec (blind_watermark.WaterMark) is *)
(* reached at wm.read_wm(bits, mode="bit") / wm.embed.                     *)
(***************************************************************************)
Max(a, b) == IF a > b THEN a ELSE b

\* capacity = (width * height) // 64
get_image_capacity_rounded(w, h) == (w * h + 32) \div 64

get_image_capacity(w, h) == (w * h) \div 64

\* as get_max_text_length, without subtracting the header
get_max_text_length_noHeader(capacity) ==
    Min(Max(0, capacity \div 8), MAX_TEXT_BYTES)

\* as get_max_text_length, without the floor at 0
get_max_text_length_noFloor(capacity) ==
    Min((capacity - HEADER_SIZE) \div 8, MAX_TEXT_BYTES)

\* min(max(0, (capacity_bits - HEADER_SIZE) // 8), MAX_TEXT_BYTES)
get_max_text_length(capacity) ==
    Min(Max(0, (capacity - HEADER_SIZE) \div 8), MAX_TEXT_BYTES)

\* images: the file is missing, cannot be decoded, or has the given size
ImageSizes ==
    {<<8, 8>>, <<64, 64>>, <<64, 72>>, <<64, 73>>, <<100, 100>>,
     <<64, 4063>>, <<64, 4064>>, <<64, 4071>>, <<64, 4072>>, <<4000, 3000>>}

ImageStates == {"missing", "unreadable", "ok"}

\* texts of 0, 1, 2, 11, 12, 499, 500, 501 and 502 bytes, and a lone
\* surrogate, which str.encode refuses
EmbedTexts ==
    {<< >>, <<65>>, <<233>>, <<55296>>, SeqOf(233, 250), SeqOf(233, 251)}
      \cup {SeqOf(65, n) : n \in {11, 12, 499, 500, 501}}

Passwords == {"", "pw"}

NoResult == [success |-> FALSE, has_bit_length |-> FALSE, bit_length |-> 0]

EmbedIdle ==
    /\ eIn = [image |-> "ok", size |-> <<8, 8>>, password |-> "", text |-> << >>,
              visible |-> FALSE, blind |-> FALSE]
    /\ ePc = "idle"
    /\ eCurOk = FALSE
    /\ eOut = [ok |-> FALSE, err |-> "none", bit_length |-> 0]
    /\ codecBits = << >>
    /\ eResult = NoResult

InitEmbed ==
    /\ eIn \in [image : ImageStates, size : ImageSizes, password : Passwords,
                text : EmbedTexts, visible : BOOLEAN, blind : BOOLEAN]
    /\ ePc = "start"
    /\ eCurOk = FALSE
    /\ eOut = [ok |-> FALSE, err |-> "none", bit_length |-> 0]
    /\ codecBits = << >>
    /\ eResult = NoResult

\* Step 1 of _process_single_image: the visible watermark, if enabled, is
\* rendered from image_path into vis_output, which becomes current_image;
\* VisibleWatermarker.process raises if the image cannot be opened
WorkerVisible ==
    /\ ePc = "start"
    /\ IF eIn.visible /\ eIn.image # "ok"
       THEN /\ ePc' = "done"
            /\ eResult' = NoResult
            /\ UNCHANGED eCurOk
       ELSE /\ ePc' = "blind"
            /\ eCurOk' = (eIn.image = "ok")
            /\ UNCHANGED eResult
    /\ UNCHANGED <<eIn, eOut, codecBits>>

\* Step 2: `if self.config.blind.enabled ...: self._blind_wm.embed(...)`;
\* without it result.success = True and bit_length stays None
WorkerBlind ==
    /\ ePc = "blind"
    /\ IF eIn.blind
       THEN ePc' = "embed_args" /\ UNCHANGED eResult
       ELSE /\ ePc' = "done"
            /\ eResult' = [NoResult EXCEPT !.success = TRUE]
    /\ UNCHANGED <<eIn, eCurOk, eOut, codecBits>>

EmbedRaise(kind) ==
    /\ eOut' = [ok |-> FALSE, err |-> kind, bit_length |-> 0]
    /\ ePc' = "raised"

\* as EmbedArgsError, without the password check
EmbedArgsError_noPassword(exists, password, text) ==
    IF ~exists THEN "not_found"
    ELSE IF text = << >> THEN "empty_text"
    ELSE IF ~Utf8Encodable(text) THEN "unicode_encode"
    ELSE IF Len(Utf8Encode(text)) > MAX_TEXT_BYTES THEN "text_too_long"
    ELSE "none"

\* embed(): the checks made before the image is looked at, in order
EmbedArgsError(exists, password, text) ==
    IF ~exists THEN "not_found"
    ELSE IF password = "" THEN "empty_password"
    ELSE IF text = << >> THEN "empty_text"
    ELSE IF ~Utf8Encodable(text) THEN "unicode_encode"
    ELSE IF Len(Utf8Encode(text)) > MAX_TEXT_BYTES THEN "text_too_long"
    ELSE "none"

EmbedCheckArgs ==
    /\ ePc = "embed_args"
    /\ LET e == EmbedArgsError(eCurOk \/ eIn.image = "unreadable",
                               eIn.password, eIn.text)
       IN IF e # "none" THEN EmbedRaise(e)
          ELSE ePc' = "embed_capacity" /\ UNCHANGED eOut
    /\ UNCHANGED <<eIn, eCurOk, codecBits, eResult>>

\* png_path = _ensure_png_format(...); max_text_len =
\* get_max_text_length(png_path): cv2.imread returns None for a file it
\* cannot decode; `if len(text_bytes) > max_text_len: raise ValueError`
EmbedCheckCapacity ==
    /\ ePc = "embed_capacity"
    /\ IF ~eCurOk THEN EmbedRaise("cannot_read")
       ELSE IF Len(Utf8Encode(eIn.text))
                 > get_max_text_length(get_image_capacity(eIn.size[1], eIn.size[2]))
       THEN EmbedRaise("too_long_for_image")
       ELSE ePc' = "embed_codec" /\ UNCHANGED eOut
    /\ UNCHANGED <<eIn, eCurOk, codecBits, eResult>>

\* bit_length = len(bits)
BitLengthOf_dataOnly(bits) == Len(bits) - HEADER_SIZE

BitLengthOf(bits) == Len(bits)

\* bits = _text_to_bits(text); wm.read_img; wm.read_wm(bits, mode="bit");
\* wm.embed(output): the codec returns or raises
EmbedCodec ==
    /\ ePc = "embed_codec"
    /\ LET bits == text_to_bits(eIn.text) IN
         /\ codecBits' = Append(codecBits, bits)
         /\ \/ /\ eOut' = [ok |-> TRUE, err |-> "none",
                           bit_length |-> BitLengthOf(bits)]
               /\ ePc' = "returned"
            \/ EmbedRaise("codec_failed")
    /\ UNCHANGED <<eIn, eCurOk, eResult>>

\* result.bit_length = bit_length; the output is moved to its final name
\* (shutil.move returns or raises); result.success
WorkerStore ==
    /\ ePc = "returned"
    /\ \E moved \in BOOLEAN :
         eResult' = [success |-> moved, has_bit_length |-> TRUE,
                     bit_length |-> eOut.bit_length]
    /\ ePc' = "done"
    /\ UNCHANGED <<eIn, eCurOk, eOut, codecBits>>

\* except Exception: result.success = False
WorkerCatch ==
    /\ ePc = "raised"
    /\ eResult' = NoResult
    /\ ePc' = "done"
    /\ UNCHANGED <<eIn, eCurOk, eOut, codecBits>>

NextEmbed ==
    (\/ WorkerVisible
     \/ WorkerBlind
     \/ EmbedCheckArgs
     \/ EmbedCheckCapacity
     \/ EmbedCodec
     \/ WorkerStore
     \/ WorkerCatch)
      /\ UNCHANGED <<codecVars, cacheVars, uiVars, previewVars, extractVars,
                     scaleVars, moreVars>>

(***************************************************************************)
(* Extraction: ExtractWorker.run and BlindWatermarkerAdapter.extract.  The *)
(* external codec returns bit_length bits read back from the image; what   *)
(* they are depends on the image and the password, so they are an input.   *)
(***************************************************************************)
MagicVariants ==
    {MAGIC_BYTES, <<78, 67, 65, 85>>, <<206, 67, 65, 84>>, <<110, 99, 97, 116>>,
     <<0, 0, 0, 0>>, <<255, 255, 255, 255>>}

\* length fields 0, 1, 2, 3, 500, 501, 2^16, 2^24, 2^31 and 2^32 - 1
LengthFields ==
    {<<0, 0, 0, 0>>, <<0, 0, 0, 1>>, <<0, 0, 0, 2>>, <<0, 0, 0, 3>>,
     <<0, 0, 1, 244>>, <<0, 0, 1, 245>>, <<0, 1, 0, 0>>, <<1, 0, 0, 0>>,
     <<128, 0, 0, 0>>, <<255, 255, 255, 255>>}

SmallData ==
    {<< >>, <<65>>, <<255>>, <<195>>, <<195, 169>>, <<65, 66>>, <<65, 66, 67>>,
     <<65, 66, 67, 68>>}

LargeData == {SeqOf(65, n) : n \in {499, 500, 501}}

\* the last bits of a buffer are missing
Cut(bits, n) == SubSeq(bits, 1, Len(bits) - n)

Buffers ==
    {Cut(BytesToBits(m \o l \o d), c) :
        m \in MagicVariants, l \in LengthFields, d \in SmallData, c \in {0, 1, 8}}
      \cup {Cut(BytesToBits(m \o l \o d), c) :
              m \in {MAGIC_BYTES, <<78, 67, 65, 85>>},
              l \in {<<0, 0, 1, 244>>, <<0, 0, 1, 245>>},
              d \in LargeData, c \in {0, 1}}
      \cup {SubSeq(BytesToBits(MAGIC_BYTES \o <<0, 0, 0, 1>>), 1, n) :
              n \in {0, 1, 31, 32, 63}}

\* bit_length: None, or an integer
NoBitLength == [given |-> FALSE, value |-> 0]

BitLength(v) == [given |-> TRUE, value |-> v]

ExtractIdle ==
    /\ xIn = [via |-> "direct", image |-> "ok", size |-> <<8, 8>>,
              password |-> "", bit_length |-> NoBitLength]
    /\ xWire = << >>
    /\ xPc = "idle"
    /\ xCodecCalled = FALSE
    /\ xBits = << >>
    /\ xOut = Err("none")

\* ExtractConfig.bit_length is an int; extract() also accepts None
InitExtract ==
    /\ xWire \in Buffers
    /\ xIn \in [via : {"worker", "direct"}, image : ImageStates,
                size : {<<64, 64>>, <<4000, 3000>>}, password : Passwords,
                bit_length : {NoBitLength, BitLength(-1), BitLength(0),
                              BitLength(Len(xWire))}]
    /\ xIn.via = "worker" => xIn.bit_length.given
    /\ xPc = "start"
    /\ xCodecCalled = FALSE
    /\ xBits = << >>
    /\ xOut = Err("none")

ExtractRaise(kind) ==
    /\ xOut' = Err(kind)
    /\ xPc' = "done"

\* `if self.config.bit_length <= 0:`
WorkerBitLengthInvalid_negativeOnly(v) == v < 0

WorkerBitLengthInvalid(v) == v <= 0

\* ExtractWorker.run: "Validate config", then self._blind_wm.extract(...);
\* a direct caller enters extract() at once
WorkerValidate ==
    /\ xPc = "start"
    /\ IF xIn.via = "direct" THEN xPc' = "extract_args" /\ UNCHANGED xOut
       ELSE IF xIn.image = "missing" THEN ExtractRaise("not_found")
       ELSE IF xIn.password = "" THEN ExtractRaise("empty_password")
       ELSE IF WorkerBitLengthInvalid(xIn.bit_length.value)
            THEN ExtractRaise("invalid_bit_length")
       ELSE xPc' = "extract_args" /\ UNCHANGED xOut
    /\ UNCHANGED <<xIn, xWire, xCodecCalled, xBits>>

\* extract(): the checks made before the codec is constructed, in order
ExtractCheckArgs ==
    /\ xPc = "extract_args"
    /\ IF xIn.image = "missing" THEN ExtractRaise("not_found")
       ELSE IF xIn.password = "" THEN ExtractRaise("empty_password")
       ELSE IF ~xIn.bit_length.given THEN ExtractRaise("bit_length_required")
       ELSE IF xIn.image = "unreadable" THEN ExtractRaise("cannot_read")
       ELSE IF xIn.bit_length.value
                 > get_image_capacity(xIn.size[1], xIn.size[2])
            THEN ExtractRaise("exceeds_capacity")
       ELSE xPc' = "extract_codec" /\ UNCHANGED xOut
    /\ UNCHANGED <<xIn, xWire, xCodecCalled, xBits>>

\* extracted_bits = wm.extract(png, wm_shape=bit_length, mode="bit"): the
\* codec returns bit_length bits, or raises (it is not made for a shape
\* below 1)
ExtractCodec ==
    /\ xPc = "extract_codec"
    /\ xCodecCalled' = TRUE
    /\ \/ /\ xIn.bit_length.value = Len(xWire)
          /\ xBits' = xWire
          /\ xPc' = "decode"
          /\ UNCHANGED xOut
       \/ /\ ExtractRaise("codec_failed")
          /\ UNCHANGED xBits
    /\ UNCHANGED <<xIn, xWire>>

\* return self._bits_to_text(bits)
ExtractDecode ==
    /\ xPc = "decode"
    /\ xOut' = bits_to_text(xBits)
    /\ xPc' = "done"
    /\ UNCHANGED <<xIn, xWire, xCodecCalled, xBits>>

NextExtract ==
    (\/ WorkerValidate
     \/ ExtractCheckArgs
     \/ ExtractCodec
     \/ ExtractDecode)
      /\ UNCHANGED <<codecVars, cacheVars, uiVars, previewVars, embedVars,
                     scaleVars, moreVars>>

(***************************************************************************)
(* Proxy size (_get_cached_proxy, cache miss) and preview font size        *)
(* (PreviewWorker.run, steps 2 and 3).  Both evaluate int(a * (num / den)) *)
(* in IEEE double precision: num / den is rounded to 53 bits, the product  *)
(* is rounded again, and int() truncates.                                  *)
(***************************************************************************)
\* the least t >= 0 with num * 2^t >= den: num / den lies in [2^-t, 2^(1-t))
ExponentBelow(num, den) ==
    CHOOSE t \in 0..30 :
        /\ num * Pow2(t) >= den
        /\ t > 0 => num * Pow2(t - 1) < den

\* (num * 2^k) mod den
ScaledRemainder(num, den, k) ==
    LET R[j \in 0..k] == IF j = 0 THEN num % den ELSE (2 * R[j - 1]) % den
    IN R[k]

\* the exponent of the doubles just below q: floor(log2(q)), one less when
\* q is a power of two; q >= 1
ExponentJustBelow(q) ==
    LET E == CHOOSE e \in 0..30 : Pow2(e) <= q /\ q < Pow2(e + 1)
    IN IF Pow2(E) = q THEN E - 1 ELSE E

\* int(a * (num / den)) for integers a >= 1 and 1 <= num <= den.  The double
\* nearest num / den is num / den - rem / (den * 2^(52 + t)) when it lies
\* below (0 < 2 rem < den).  The product then lies below a * num / den by
\* a * rem / (den * 2^(52 + t)), and when a * num / den is an integer q it
\* rounds back to q only if that gap is at most half the spacing 2^(E - 52)
\* of the doubles below q.  In every other case the result is the floor of
\* the exact product.
IntOfProduct(a, num, den) ==
    LET q == (a * num) \div den IN
    IF num = den THEN a
    ELSE IF (a * num) % den # 0 THEN q
    ELSE
      LET t == ExponentBelow(num, den)
          rem == ScaledRemainder(num, den, 52 + t)
          E == ExponentJustBelow(q)
      IN IF 0 < 2 * rem /\ 2 * rem < den
              /\ 2 * a * rem > den * Pow2(E + t)
         THEN q - 1
         ELSE q

\* "Calculate proxy dimensions maintaining aspect ratio"
ProxySize(orig_width, orig_height, max_size) ==
    IF orig_width > max_size \/ orig_height > max_size
    THEN IF orig_width > orig_height
         THEN <<max_size, IntOfProduct(orig_height, max_size, orig_width)>>
         ELSE <<IntOfProduct(orig_width, max_size, orig_height), max_size>>
    ELSE <<orig_width, orig_height>>

\* scale_factor = min(proxy_width / orig_width, proxy_height / orig_height),
\* as the fraction <<num, den>> whose double is the smaller (rounding to
\* nearest is monotone)
ScaleFactor(proxy, orig) ==
    IF proxy[1] * orig[2] <= proxy[2] * orig[1]
    THEN <<proxy[1], orig[1]>>
    ELSE <<proxy[2], orig[2]>>

\* preview_font_size = max(8, int(self.config.font_size * scale_factor))
PreviewFontSize_noMinimum(font_size, scale) ==
    IntOfProduct(font_size, scale[1], scale[2])

PreviewFontSize(font_size, scale) ==
    Max(8, IntOfProduct(font_size, scale[1], scale[2]))

SourceSizes ==
    {<<4000, 3000>>, <<3000, 4000>>, <<1920, 1080>>, <<1600, 1200>>,
     <<1078, 1078>>, <<1000, 1000>>, <<895, 537>>, <<537, 895>>,
     <<928, 600>>, <<801, 600>>, <<800, 800>>, <<800, 600>>, <<640, 480>>,
     <<300, 700>>, <<100, 50>>, <<10000, 5>>, <<5, 10000>>, <<1700, 2>>}

\* PreviewConfig.max_preview_size (800 by default)
MaxSizes == {400, 800}

FontSizes == 1..500

ScaleIdle ==
    /\ sIn = [size |-> <<1, 1>>, max_size |-> 800, font_size |-> 1]
    /\ sPc = "idle"
    /\ sProxy = <<0, 0>>
    /\ sOrig = <<0, 0>>
    /\ sFont = 0

InitScale ==
    /\ sIn \in [size : SourceSizes, max_size : MaxSizes, font_size : FontSizes]
    /\ sPc = "start"
    /\ sProxy = <<0, 0>>
    /\ sOrig = <<0, 0>>
    /\ sFont = 0

\* _get_cached_proxy, slow path: the proxy and orig_size stored in the cache;
\* Image.resize raises ValueError for a size with a dimension below 1
ProxyMiss ==
    /\ sPc = "start"
    /\ sProxy' = ProxySize(sIn.size[1], sIn.size[2], sIn.max_size)
    /\ sOrig' = sIn.size
    /\ sPc' = IF sProxy'[1] < 1 \/ sProxy'[2] < 1 THEN "raised" ELSE "proxied"
    /\ UNCHANGED <<sIn, sFont>>

\* PreviewWorker.run, steps 2 and 3
ScaleFont ==
    /\ sPc = "proxied"
    /\ sFont' = PreviewFontSize(sIn.font_size, ScaleFactor(sProxy, sOrig))
    /\ sPc' = "scaled"
    /\ UNCHANGED <<sIn, sProxy, sOrig>>

NextScale ==
    (ProxyMiss \/ ScaleFont)
      /\ UNCHANGED <<codecVars, cacheVars, uiVars, previewVars, embedVars,
                     extractVars, moreVars>>

(***************************************************************************)
(* Visible watermark: VisibleWatermarker.process, process_image_object,    *)
(* _tile_watermark, and the call PreviewWorker.run makes (step 4).  Font   *)
(* loading and text drawing are Pillow's: the size of the rotated tile is  *)
(* an input.  A spacing ratio is a double; the ratios modelled are the     *)
(* tenths v / 10.0 the spin boxes of the embed tab produce, and None.      *)
(***************************************************************************)
\* str.strip(): leading and trailing white space removed; texts are
\* sequences of code points
IsSpace(c) == c \in {9, 10, 13, 32}

Strip(text) ==
    LET idx == {i \in 1..Len(text) : ~IsSpace(text[i])}
    IN IF idx = {} THEN << >>
       ELSE SubSeq(text, CHOOSE i \in idx : \A k \in idx : i <= k, SetMax(idx))

\* a ratio argument: None, or the double v / 10.0
NoRatio == [given |-> FALSE, tenths |-> 0]

Ratio(v) == [given |-> TRUE, tenths |-> v]

\* DEFAULT_HORIZONTAL_SPACING_RATIO = 1.5, DEFAULT_VERTICAL_SPACING_RATIO = 1.2
DefaultRatio(axis) == IF axis = "h" THEN Ratio(15) ELSE Ratio(12)

\* spacing_h_ratio = max(0.5, min(10.0, spacing_h_ratio))
ClampRatio(r) == Ratio(Max(5, Min(100, r.tenths)))

\* int(font_size * max(0, ratio - 1.0)) in double precision, for the ratio
\* v / 10.0 with 5 <= v <= 100 and font_size >= 0.  v / 10.0 is the double
\* nearest v / 10: with rem = (v * 2^(52 - e)) mod 10 and 2^e <= v / 10 <
\* 2^(e + 1) it lies below v / 10 by rem / (10 * 2^(52 - e)) when 0 < rem <
\* 5.  The subtraction is exact.  When font_size * (v - 10) / 10 is an
\* integer q and the ratio lies below, the product lies below q and rounds
\* back to q only if the gap is at most half the spacing of the doubles
\* below q.
StepExtra(font_size, v) ==
    LET A == font_size * (v - 10)
        q == A \div 10
    IN IF v <= 10 \/ A = 0 THEN 0
       ELSE IF A % 10 # 0 THEN q
       ELSE
         LET e == CHOOSE x \in 0..3 : 10 * Pow2(x) <= v /\ v < 10 * Pow2(x + 1)
             rem == ScaledRemainder(v, 10, 52 - e)
             E == ExponentJustBelow(q)
         IN IF 0 < rem /\ rem < 5
                 /\ 4 * font_size * rem * Pow2(e) > 10 * Pow2(E + 1)
            THEN q - 1
            ELSE q

\* step_h = tile_w + int(font_size * max(0, spacing_h_ratio - 1.0))
Step(tile_dim, font_size, ratio) == tile_dim + StepExtra(font_size, ratio.tenths)

\* `if row % 2 == 1: x += step_h // 2`
BrickOffset_evenRows(row, step_h) == IF row % 2 = 0 THEN step_h \div 2 ELSE 0

BrickOffset(row, step_h) == IF row % 2 = 1 THEN step_h \div 2 ELSE 0

NoArgs ==
    [text |-> << >>, size |-> 0, opacity |-> 0, angle |-> 0,
     color |-> <<0, 0, 0>>, spacing_h_ratio |-> NoRatio,
     spacing_v_ratio |-> NoRatio]

\* watermarker.process_image_object(image=proxy_image, text=..., size=
\* preview_font_size, opacity=..., angle=..., color=..., spacing_h_ratio=...,
\* spacing_v_ratio=...)
PreviewArgs_scaledSpacing(config, scale) ==
    [text |-> config.text,
     size |-> PreviewFontSize(config.size, scale),
     opacity |-> config.opacity,
     angle |-> config.angle,
     color |-> config.color,
     spacing_h_ratio |->
        Ratio(IntOfProduct(config.spacing_h_ratio.tenths, scale[1], scale[2])),
     spacing_v_ratio |->
        Ratio(IntOfProduct(config.spacing_v_ratio.tenths, scale[1], scale[2]))]

PreviewArgs(config, scale) ==
    [text |-> config.text,
     size |-> PreviewFontSize(config.size, scale),
     opacity |-> config.opacity,
     angle |-> config.angle,
     color |-> config.color,
     spacing_h_ratio |-> config.spacing_h_ratio,
     spacing_v_ratio |-> config.spacing_v_ratio]

\* the arguments of a direct call
DirectArgs(in) ==
    [text |-> in.text, size |-> in.size, opacity |-> in.opacity,
     angle |-> in.angle, color |-> in.color,
     spacing_h_ratio |-> in.spacing_h_ratio,
     spacing_v_ratio |-> in.spacing_v_ratio]

RenderTexts == {<< >>, <<32, 9, 32>>, <<119, 109>>, <<32, 119, 32, 109, 10>>}

Scales == {<<1, 1>>, <<800, 4000>>, <<171, 300>>}

Colors == {<<128, 128, 128>>, <<255, 0, 0>>}

\* the three families of calls: arguments in and out of range; geometry
\* and spacing; preview requests
\* `diagonal = int(math.sqrt(text_width**2 + text_height**2))`
Diagonal(text_width, text_height) ==
    LET n == text_width * text_width + text_height * text_height
    IN  CHOOSE r \in 0..n : r * r <= n /\ n < (r + 1) * (r + 1)

\* `padding = int(diagonal * 0.1); canvas_size = diagonal + padding`
CanvasSize(text_width, text_height) ==
    Diagonal(text_width, text_height) + Diagonal(text_width, text_height) \div 10

\* (text_width, text_height) that `textbbox` measures: an inked text, a text
\* without ink in one direction, and a text of zero-width characters only
TextBoxes == {<<3, 4>>, <<9, 0>>, <<0, 12>>, <<0, 0>>}

\* with `angle == 0` the tile is the square canvas itself (no rotate)
UnrotatedTile(box) == <<CanvasSize(box[1], box[2]), CanvasSize(box[1], box[2])>>

RenderInputs ==
    [entry : {"process", "process_image_object", "preview"},
     exists : BOOLEAN, text : RenderTexts, size : {0, 1, 40, 500, 501},
     opacity : {-1, 0, 80, 255, 256}, angle : {-30}, color : {<<128, 128, 128>>},
     spacing_h_ratio : {Ratio(15)}, spacing_v_ratio : {Ratio(15)},
     tile : {<<20, 10>>}, img : {<<40, 30>>}, scale : {<<1, 1>>}]
      \cup
    [entry : {"process", "process_image_object"},
     exists : {TRUE}, text : {<<119, 109>>}, size : {5, 8, 40},
     opacity : {80}, angle : {-30}, color : {<<128, 128, 128>>},
     spacing_h_ratio : {NoRatio} \cup {Ratio(v) : v \in {3, 10, 12, 15, 17, 100, 120}},
     spacing_v_ratio : {NoRatio} \cup {Ratio(v) : v \in {5, 12, 15, 25, 101}},
     tile : {<<20, 10>>, <<15, 15>>, <<7, 9>>},
     img : {<<40, 30>>, <<64, 64>>, <<30, 50>>}, scale : {<<1, 1>>}]
      \cup
    [entry : {"preview"},
     exists : {TRUE}, text : {<<119, 109>>, <<32, 119, 32, 109, 10>>},
     size : {40, 53, 600}, opacity : {80, 255}, angle : {0, -30}, color : Colors,
     spacing_h_ratio : {Ratio(15), Ratio(25)},
     spacing_v_ratio : {Ratio(12), Ratio(20)},
     tile : {<<20, 10>>}, img : {<<40, 30>>}, scale : Scales]
      \cup
    [entry : {"process", "process_image_object"},
     exists : {TRUE}, text : {<<8203>>}, size : {1, 40},
     opacity : {80}, angle : {0}, color : {<<128, 128, 128>>},
     spacing_h_ratio : {Ratio(v) : v \in {5, 10}},
     spacing_v_ratio : {Ratio(v) : v \in {5, 10}},
     tile : {UnrotatedTile(box) : box \in TextBoxes},
     img : {<<40, 30>>}, scale : {<<1, 1>>}]

RenderIdle ==
    /\ rIn = [entry |-> "none"]
    /\ rPc = "idle"
    /\ rArgs = NoArgs
    /\ rStep = <<0, 0>>
    /\ rX = 0
    /\ rY = 0
    /\ rRow = 0
    /\ rPastes = {}
    /\ rOut = "none"

InitRender ==
    /\ rIn \in RenderInputs
    /\ rIn.entry # "process" => rIn.exists
    /\ rPc = "start"
    /\ rArgs = NoArgs
    /\ rStep = <<0, 0>>
    /\ rX = 0
    /\ rY = 0
    /\ rRow = 0
    /\ rPastes = {}
    /\ rOut = "none"

RenderRaise(kind) ==
    /\ rOut' = kind
    /\ rPc' = "done"

\* PreviewWorker.run: `if not self.config.visible_text.strip():` emits
\* preview_error and returns; otherwise (steps 3 and 4) the compositor is
\* called on the proxy
PreviewCall ==
    /\ rPc = "start"
    /\ rIn.entry = "preview"
    /\ IF Strip(rIn.text) = << >>
       THEN RenderRaise("preview_error") /\ UNCHANGED rArgs
       ELSE /\ rArgs' = PreviewArgs(rIn, rIn.scale)
            /\ rPc' = "process_image_object"
            /\ UNCHANGED rOut
    /\ UNCHANGED <<rIn, rStep, rX, rY, rRow, rPastes>>

\* a caller other than the preview (EmbedWorker calls process)
DirectCall ==
    /\ rPc = "start"
    /\ rIn.entry # "preview"
    /\ rArgs' = DirectArgs(rIn)
    /\ rPc' = rIn.entry
    /\ UNCHANGED <<rIn, rStep, rX, rY, rRow, rPastes, rOut>>

\* the defaults and the clamp of both entry points
Spacing(r, axis) == ClampRatio(IF r.given THEN r ELSE DefaultRatio(axis))

NormaliseSpacing ==
    rArgs' = [rArgs EXCEPT
                !.spacing_h_ratio = Spacing(rArgs.spacing_h_ratio, "h"),
                !.spacing_v_ratio = Spacing(rArgs.spacing_v_ratio, "v")]

\* process: "Validate inputs", defaults, clamp
ProcessValidate ==
    /\ rPc = "process"
    /\ IF ~rIn.exists THEN RenderRaise("FileNotFoundError") /\ UNCHANGED rArgs
       ELSE IF Strip(rArgs.text) = << >>
            THEN RenderRaise("ValueError_text") /\ UNCHANGED rArgs
       ELSE IF ~(1 <= rArgs.size /\ rArgs.size <= 500)
            THEN RenderRaise("ValueError_size") /\ UNCHANGED rArgs
       ELSE IF ~(0 <= rArgs.opacity /\ rArgs.opacity <= 255)
            THEN RenderRaise("ValueError_opacity") /\ UNCHANGED rArgs
       ELSE /\ NormaliseSpacing
            /\ rPc' = "tile"
            /\ UNCHANGED rOut
    /\ UNCHANGED <<rIn, rStep, rX, rY, rRow, rPastes>>

\* process_image_object: the text check, defaults, clamp
ObjectValidate ==
    /\ rPc = "process_image_object"
    /\ IF Strip(rArgs.text) = << >>
       THEN RenderRaise("ValueError_text") /\ UNCHANGED rArgs
       ELSE /\ NormaliseSpacing
            /\ rPc' = "tile"
            /\ UNCHANGED rOut
    /\ UNCHANGED <<rIn, rStep, rX, rY, rRow, rPastes>>

\* _create_watermark_tile returns the tile; then the head of
\* _tile_watermark: the steps and start_y
CreateTile ==
    /\ rPc = "tile"
    /\ rStep' = <<Step(rIn.tile[1], rArgs.size, rArgs.spacing_h_ratio),
                  Step(rIn.tile[2], rArgs.size, rArgs.spacing_v_ratio)>>
    /\ rY' = (-rIn.tile[2]) \div 2
    /\ rRow' = 0
    /\ rPc' = "row"
    /\ UNCHANGED <<rIn, rArgs, rX, rPastes, rOut>>

\* Pillow refuses a font size below 1 or a fill outside 0..255 in some
\* versions and accepts them (fallback font, clipped alpha) in others; the
\* same holds for drawing on a canvas of size 0
CreateTileFails ==
    /\ rPc = "tile"
    /\ \/ rArgs.size < 1 \/ rArgs.opacity < 0 \/ rArgs.opacity > 255
       \/ rIn.tile[1] = 0 \/ rIn.tile[2] = 0
    /\ RenderRaise("library_error")
    /\ UNCHANGED <<rIn, rArgs, rStep, rX, rY, rRow, rPastes>>

\* `while y < img_h + tile_h:` x = start_x, shifted on odd rows
RowBegin ==
    /\ rPc = "row"
    /\ rY < rIn.img[2] + rIn.tile[2]
    /\ rX' = ((-rIn.tile[1]) \div 2) + BrickOffset(rRow, rStep[1])
    /\ rPc' = "paste"
    /\ UNCHANGED <<rIn, rArgs, rStep, rY, rRow, rPastes, rOut>>

\* the outer loop ends: alpha_composite, return result
TilingDone ==
    /\ rPc = "row"
    /\ ~(rY < rIn.img[2] + rIn.tile[2])
    /\ rOut' = "image"
    /\ rPc' = "done"
    /\ UNCHANGED <<rIn, rArgs, rStep, rX, rY, rRow, rPastes>>

\* `while x < img_w + tile_w:` paste, x += step_h
Paste ==
    /\ rPc = "paste"
    /\ rX < rIn.img[1] + rIn.tile[1]
    /\ rPastes' = rPastes \cup {<<rX, rY>>}
    /\ rX' = rX + rStep[1]
    /\ UNCHANGED <<rIn, rPc, rArgs, rStep, rY, rRow, rOut>>

\* the inner loop ends: y += step_v, row += 1
RowEnd ==
    /\ rPc = "paste"
    /\ ~(rX < rIn.img[1] + rIn.tile[1])
    /\ rY' = rY + rStep[2]
    /\ rRow' = rRow + 1
    /\ rPc' = "row"
    /\ UNCHANGED <<rIn, rArgs, rStep, rX, rPastes, rOut>>

NextRender ==
    (\/ PreviewCall
     \/ DirectCall
     \/ ProcessValidate
     \/ ObjectValidate
     \/ CreateTile
     \/ CreateTileFails
     \/ RowBegin
     \/ Paste
     \/ RowEnd
     \/ TilingDone)
      /\ UNCHANGED <<codecVars, cacheVars, uiVars, previewVars, embedVars,
                     extractVars, scaleVars, capVars, seedCalls, runVars>>

(***************************************************************************)
(* Capacity: _get_image_capacity and get_max_text_length on the size of    *)
(* the image cv2.imread returns                                            *)
(***************************************************************************)
CapWidths ==
    {1, 7, 8, 63, 64, 65, 71, 72, 73, 100, 127, 128, 509, 510, 511, 512, 4000}

CapHeights == {1, 8, 63, 64, 65, 72, 100, 508, 509, 510, 511, 512, 3000}

InitCap ==
    /\ capIn \in CapWidths \X CapHeights
    /\ capPc = "start"
    /\ capBits = 0
    /\ capMax = 0

\* capacity_bits = self._get_image_capacity(image_path)
GetCapacity ==
    /\ capPc = "start"
    /\ capBits' = get_image_capacity(capIn[1], capIn[2])
    /\ capPc' = "capacity"
    /\ UNCHANGED <<capIn, capMax>>

\* get_max_text_length: available_bits, max_from_image, the minimum
GetMaxTextLength ==
    /\ capPc = "capacity"
    /\ capMax' = get_max_text_length(capBits)
    /\ capPc' = "done"
    /\ UNCHANGED <<capIn, capBits>>

NextCap ==
    (GetCapacity \/ GetMaxTextLength)
      /\ UNCHANGED <<codecVars, cacheVars, uiVars, previewVars, embedVars,
                     extractVars, scaleVars, renderVars, seedCalls, runVars>>

CapIdle ==
    /\ capIn = <<0, 0>>
    /\ capPc = "idle"
    /\ capBits = 0
    /\ capMax = 0

(***************************************************************************)
(* Keys: _password_to_seed and the WaterMark(...) constructions of embed   *)
(* and extract                                                             *)
(***************************************************************************)
MaxCalls == 3

SEED_MODULUS == 2147483647

SeedPasswords == {"a", "ab", "pw"}

\* hashlib.sha256(password.encode("utf-8")).digest()[:8], as CPython gives it
Sha256Head(password) ==
    CASE password = "a"  -> <<202, 151, 129, 18, 202, 27, 189, 202>>
      [] password = "ab" -> <<251, 142, 32, 252, 46, 76, 63, 36>>
      [] password = "pw" -> <<48, 201, 82, 250, 177, 34, 195, 249>>

\* (a + b) % SEED_MODULUS for a, b in 0..SEED_MODULUS-1, within 32 bits
ModAdd(a, b) ==
    IF a >= SEED_MODULUS - b THEN a - (SEED_MODULUS - b) ELSE a + b

\* (r * 256) % SEED_MODULUS for r in 0..SEED_MODULUS-1, within 32 bits:
\* r = hi * 2^23 + lo and 2^31 % SEED_MODULUS = 1, so r * 256 is congruent
\* to lo * 256 + hi
ModShiftByte(r) == ModAdd((r % 8388608) * 256, r \div 8388608)

RECURSIVE FromBytesBigMod(_)
\* int.from_bytes(bytes, byteorder="big") % (2 ** 31 - 1)
FromBytesBigMod(bytes) ==
    IF bytes = << >> THEN 0
    ELSE LET high == FromBytesBigMod(SubSeq(bytes, 1, Len(bytes) - 1))
         IN  ModAdd(ModShiftByte(high), bytes[Len(bytes)])

\* as _password_to_seed, reading the 8 bytes with byteorder="little"
password_to_seed_little(password) ==
    LET head == Sha256Head(password)
    IN  FromBytesBigMod([i \in 1..8 |-> head[9 - i]])

password_to_seed(password) == FromBytesBigMod(Sha256Head(password))

\* WaterMark(password_img=seed, password_wm=seed)
WaterMark(op, password) ==
    LET seed == password_to_seed(password)
    IN  [op |-> op, password |-> password,
         password_img |-> seed, password_wm |-> seed]

InitSeed == seedCalls = << >>

\* embed, from seed = self._password_to_seed(password) to the WaterMark
EmbedKeys(password) ==
    /\ Len(seedCalls) < MaxCalls
    /\ seedCalls' = Append(seedCalls, WaterMark("embed", password))

\* extract, from seed = self._password_to_seed(password) to the WaterMark
ExtractKeys(password) ==
    /\ Len(seedCalls) < MaxCalls
    /\ seedCalls' = Append(seedCalls, WaterMark("extract", password))

NextSeed ==
    (\E password \in SeedPasswords :
        EmbedKeys(password) \/ ExtractKeys(password))
      /\ UNCHANGED <<codecVars, cacheVars, uiVars, previewVars, embedVars,
                     extractVars, scaleVars, renderVars, capVars, runVars>>

SeedIdle == seedCalls = << >>

(***************************************************************************)
(* EmbedWorker.run: the batch loop, its signals, and cancel() called from  *)
(* the main thread while the worker thread runs                            *)
(***************************************************************************)
MaxBatch == 3

BatchTexts == {<< >>, <<32>>, <<119>>}

NoCancel == [called |-> FALSE, passed |-> 0, progress |-> 0]

\* image_paths has n entries; image i fails inside _process_single_image
\* when i is in fails; crash is where an exception escapes into run's own
\* except clause: -1 in the validation (a text that is None), i >= 1 at the
\* progress statement of image i (an entry that is no Path), 0 nowhere
RunInputs ==
    UNION {[n : {n},
            visible : [enabled : BOOLEAN, text : BatchTexts],
            blind : [enabled : BOOLEAN, password : Passwords,
                     text : {<<32>>, <<104>>}],
            fails : SUBSET (1..n),
            crash : -1..n] : n \in 0..MaxBatch}

RunIdle ==
    /\ runIn = [n |-> 0, visible |-> [enabled |-> FALSE, text |-> << >>],
                blind |-> [enabled |-> FALSE, password |-> "", text |-> <<32>>],
                fails |-> {}, crash |-> 0]
    /\ runPc = "idle"
    /\ runIdx = 0
    /\ runResults = << >>
    /\ runSignals = << >>
    /\ runCancelled = FALSE
    /\ runCancelAt = NoCancel

InitRun ==
    /\ runIn \in RunInputs
    /\ runPc = "start"
    /\ runIdx = 0
    /\ runResults = << >>
    /\ runSignals = << >>
    /\ runCancelled = FALSE
    /\ runCancelAt = NoCancel

Progress(current, total) ==
    [sig |-> "progress", current |-> current, total |-> total]

ImageCompleted(result) == [sig |-> "image_completed", result |-> result]

FinishedAll(results) == [sig |-> "finished_all", results |-> results]

ErrorSignal(msg) == [sig |-> "error", msg |-> msg]

\* the validation of run: the message of the first check that fails
RunConfigError(config) ==
    IF config.visible.enabled /\ Strip(config.visible.text) = << >>
    THEN "visible_text_empty"
    ELSE IF config.blind.enabled /\ config.blind.password = ""
    THEN "blind_password_empty"
    ELSE IF config.blind.enabled /\ Strip(config.blind.text) = << >>
    THEN "blind_text_empty"
    ELSE "none"

\* _process_single_image: every exception ends in success = False
ProcessSingleImage(config, i) ==
    [image |-> i, success |-> i \notin config.fails]

\* as BreakOnCancel, with the flag never looked at
BreakOnCancel_never(flag) == FALSE

\* if self._is_cancelled: break
BreakOnCancel(flag) == flag

\* as LoopResults, a failed image not appended
LoopResults_dropFailed(results, result) ==
    IF result.success THEN Append(results, result) ELSE results

\* results.append(result)
LoopResults(results, result) == Append(results, result)

\* as EmitFinishedAll, also when finished_all was emitted before
EmitFinishedAll_again(signals, results) ==
    signals \o <<FinishedAll(results), FinishedAll(results)>>

\* self.finished_all.emit(results)
EmitFinishedAll(signals, results) == Append(signals, FinishedAll(results))

\* total == 0: error, finished_all, return
RunStart ==
    /\ runPc = "start"
    /\ IF runIn.n = 0
       THEN /\ runSignals' =
                EmitFinishedAll(Append(runSignals, ErrorSignal("no_images")),
                                runResults)
            /\ runPc' = "done"
       ELSE /\ runPc' = "validate"
            /\ UNCHANGED runSignals
    /\ UNCHANGED <<runIn, runIdx, runResults, runCancelled, runCancelAt>>

\* the validation inside the try, then _setup_processors
RunValidate ==
    /\ runPc = "validate"
    /\ IF runIn.crash = -1
       THEN /\ runSignals' = Append(runSignals, ErrorSignal("critical"))
            /\ runPc' = "cleanup"
       ELSE IF RunConfigError(runIn) # "none"
       THEN /\ runSignals' =
                EmitFinishedAll(
                    Append(runSignals, ErrorSignal(RunConfigError(runIn))),
                    runResults)
            /\ runPc' = "done"
       ELSE /\ runPc' = "check"
            /\ UNCHANGED runSignals
    /\ UNCHANGED <<runIn, runIdx, runResults, runCancelled, runCancelAt>>

\* the head of the for loop and the test of _is_cancelled
RunCheck ==
    /\ runPc = "check"
    /\ runPc' = IF runIdx = runIn.n \/ BreakOnCancel(runCancelled)
                THEN "cleanup" ELSE "progress"
    /\ UNCHANGED <<runIn, runIdx, runResults, runSignals, runCancelled,
                   runCancelAt>>

\* self.progress.emit(idx + 1, total, image_path.name)
RunProgress ==
    /\ runPc = "progress"
    /\ IF runIn.crash = runIdx + 1
       THEN /\ runSignals' = Append(runSignals, ErrorSignal("critical"))
            /\ runPc' = "cleanup"
       ELSE /\ runSignals' = Append(runSignals, Progress(runIdx + 1, runIn.n))
            /\ runPc' = "process"
    /\ UNCHANGED <<runIn, runIdx, runResults, runCancelled, runCancelAt>>

\* result = self._process_single_image(image_path); results.append(result)
RunProcess ==
    /\ runPc = "process"
    /\ runResults' =
          LoopResults(runResults, ProcessSingleImage(runIn, runIdx + 1))
    /\ runPc' = "completed"
    /\ UNCHANGED <<runIn, runIdx, runSignals, runCancelled, runCancelAt>>

\* self.image_completed.emit(result), and the next iteration
RunCompleted ==
    /\ runPc = "completed"
    /\ runSignals' =
          Append(runSignals,
                 ImageCompleted(ProcessSingleImage(runIn, runIdx + 1)))
    /\ runIdx' = runIdx + 1
    /\ runPc' = "check"
    /\ UNCHANGED <<runIn, runResults, runCancelled, runCancelAt>>

\* finally: _cleanup_processors; then self.finished_all.emit(results)
RunFinish ==
    /\ runPc = "cleanup"
    /\ runSignals' = EmitFinishedAll(runSignals, runResults)
    /\ runPc' = "done"
    /\ UNCHANGED <<runIn, runIdx, runResults, runCancelled, runCancelAt>>

\* the images whose test of _is_cancelled has passed
Passed == IF runPc \in {"progress", "process", "completed"}
          THEN runIdx + 1 ELSE runIdx

ProgressCount(signals) ==
    Cardinality({i \in 1..Len(signals) : signals[i].sig = "progress"})

\* WatermarkController._on_embed_cancel: cancel() while the worker runs
RunCancel ==
    /\ runPc \notin {"idle", "done"}
    /\ ~runCancelAt.called
    /\ runCancelled' = TRUE
    /\ runCancelAt' = [called |-> TRUE, passed |-> Passed,
                       progress |-> ProgressCount(runSignals)]
    /\ UNCHANGED <<runIn, runPc, runIdx, runResults, runSignals>>

\* the steps of the worker thread
RunWorker ==
    \/ RunStart
    \/ RunValidate
    \/ RunCheck
    \/ RunProgress
    \/ RunProcess
    \/ RunCompleted
    \/ RunFinish

NextRun ==
    (RunWorker \/ RunCancel)
      /\ UNCHANGED <<codecVars, cacheVars, uiVars, previewVars, embedVars,
                     extractVars, scaleVars, renderVars, capVars, seedCalls>>

MoreIdle == RenderIdle /\ CapIdle /\ SeedIdle /\ RunIdle

\* the one-shot jobs at rest, for the specifications that do not run them
JobsIdle == EmbedIdle /\ ExtractIdle /\ ScaleIdle /\ MoreIdle

vars == <<codecVars, cacheVars, uiVars, previewVars, jobVars>>

\* the codec at rest, for the specifications that do not exercise it
CodecIdle ==
    /\ cText = << >>
    /\ cBits = << >>
    /\ cOut = Err("none")
    /\ cPc = "start"

InitSpecCodec ==
    InitCodec /\ InitCache(0, 0, 0) /\ InitUi /\ InitPreview /\ JobsIdle

SpecCodec == InitSpecCodec /\ [][NextCodec]_vars

\* one call of _get_cached_proxy at a time
InitCacheSeq ==
    CodecIdle /\ InitCache(MaxStores, 0, MaxClears) /\ InitUi /\ InitPreview
      /\ JobsIdle

SpecCacheSeq == InitCacheSeq /\ [][NextCache]_vars

\* overlapping calls of _get_cached_proxy
InitCacheRace ==
    CodecIdle /\ InitCache(MaxStores, MaxRaces, MaxClears) /\ InitUi
      /\ InitPreview /\ JobsIdle

SpecCache == InitCacheRace /\ [][NextCache]_vars

\* the same callers, with a worker thread stopped by terminate()
InitSpecTerminate ==
    CodecIdle /\ InitCache(MaxStores, MaxRaces, MaxClears) /\ InitUi
      /\ InitPreview /\ JobsIdle

SpecTerminate == InitSpecTerminate /\ [][NextTerminate]_vars

\* the image list handlers of the embed tab
InitSpecUi ==
    CodecIdle /\ InitCache(MaxUiStores, 0, 0) /\ InitUi /\ InitPreview
      /\ JobsIdle

SpecUi == InitSpecUi /\ [][NextUi]_vars

\* the preview pipeline
Init == CodecIdle /\ InitCache(0, 0, 0) /\ InitUi /\ InitPreview /\ JobsIdle

Spec == Init /\ [][NextPreview]_vars

\* the pipeline without PreviewManager.cancel(), the main thread's event
\* loop running and every started worker thread being scheduled
InitSpecQuiet ==
    CodecIdle /\ InitCache(0, 0, 0) /\ InitUi /\ InitPreview /\ JobsIdle

SpecQuiet ==
    /\ InitSpecQuiet
    /\ [][NextQuiet]_vars
    /\ WF_previewVars(MainProgress)
    /\ \A j \in Jobs : WF_previewVars(wAlive[j] /\ WorkerStep(j))

\* everything but the one-shot jobs at rest
RestIdle == CodecIdle /\ InitCache(0, 0, 0) /\ InitUi /\ InitPreview

\* one embed job of EmbedWorker
InitSpecEmbed == RestIdle /\ InitEmbed /\ ExtractIdle /\ ScaleIdle /\ MoreIdle

SpecEmbed == InitSpecEmbed /\ [][NextEmbed]_vars

\* one extraction, through ExtractWorker or by a direct call of extract()
InitSpecExtract ==
    RestIdle /\ EmbedIdle /\ InitExtract /\ ScaleIdle /\ MoreIdle

SpecExtract == InitSpecExtract /\ [][NextExtract]_vars

\* one cache miss of _get_cached_proxy followed by the font scaling of run
InitSpecScale ==
    RestIdle /\ EmbedIdle /\ ExtractIdle /\ InitScale /\ MoreIdle

SpecScale == InitSpecScale /\ [][NextScale]_vars

\* one call of the visible watermarker, directly or from a preview job
InitSpecRender ==
    /\ RestIdle /\ EmbedIdle /\ ExtractIdle /\ ScaleIdle
    /\ InitRender /\ CapIdle /\ SeedIdle /\ RunIdle

SpecRender == InitSpecRender /\ [][NextRender]_vars

\* one call of get_max_text_length
InitSpecCap ==
    /\ RestIdle /\ EmbedIdle /\ ExtractIdle /\ ScaleIdle
    /\ RenderIdle /\ InitCap /\ SeedIdle /\ RunIdle

SpecCap == InitSpecCap /\ [][NextCap]_vars

\* embed and extract calls that reach the codec, by their keys
InitSpecSeed ==
    /\ RestIdle /\ EmbedIdle /\ ExtractIdle /\ ScaleIdle
    /\ RenderIdle /\ CapIdle /\ InitSeed /\ RunIdle

SpecSeed == InitSpecSeed /\ [][NextSeed]_vars

\* one run of EmbedWorker, with cancel() from the main thread
InitSpecRun ==
    /\ RestIdle /\ EmbedIdle /\ ExtractIdle /\ ScaleIdle
    /\ RenderIdle /\ CapIdle /\ SeedIdle /\ InitRun

SpecRun == InitSpecRun /\ [][NextRun]_vars

\* the same, the worker thread being scheduled until run returns
SpecRunFair == InitSpecRun /\ [][NextRun]_vars /\ WF_runVars(RunWorker)

Suffix(s, n) == SubSeq(s, Len(s) - n + 1, Len(s))

Distinct(s) == \A i, j \in 1..Len(s) : i # j => s[i] # s[j]

C8_Bounded == Len(proxy_cache) <= MAX_PROXY_CACHE_SIZE

\* two overlapping calls are about to store into a full cache
C8_Witness ==
    /\ Len(proxy_cache) = MAX_PROXY_CACHE_SIZE
    /\ tPc["w1"] \in {"lock2", "store"}
    /\ tPc["w2"] \in {"lock2", "store"}

\* C9: the image a call returns, on a hit and on a miss, is never the
\* buffer the cache stores, so a caller's writes never reach an entry.
C9_NoAlias ==
    /\ \A t \in Threads : tRet[t] # 0 => tRet[t] \notin CacheBufs(proxy_cache)
    /\ CacheBufs(proxy_cache) \cap mutated = {}

\* a caller has written into the image a miss returned while the entry is
\* cached, and another call has hit that entry afterwards
C9_Witness ==
    \E t, u \in Threads :
        /\ t # u
        /\ tPc[t] = "ret" /\ tProxy[t] # 0 /\ tRet[t] \in mutated
        /\ tPc[u] = "ret" /\ tProxy[u] = 0 /\ tKey[u] = tKey[t]
        /\ HasKey(proxy_cache, tKey[t])

\* C10 as stated: no preview is requested between a change of the image
\* list and the invalidation that follows it.
C10_Original == ~reqWhileDirty

\* C10 as amended: clear_proxy_cache leaves the cache empty and a lookup in
\* an empty cache misses and reloads; every change of the image list is
\* followed by clear_proxy_cache before its handler returns to the event
\* loop, so before a debounced trigger can start a preview job (a preview
\* may be requested earlier, by the selection handler, while
\* remove_selected is still removing items).
C10_Amended ==
    /\ [](uiPc = "idle" => ~listDirty)
    /\ [][(clrPc = "locked" /\ clrPc' = "idle") => proxy_cache' = << >>]_vars
    /\ [][\A t \in Threads :
            (proxy_cache = << >> /\ tPc[t] = "check" /\ tPc'[t] # "check")
               => tPc'[t] = "load"]_vars

\* the list changed, a preview was requested before the invalidation, the
\* handler has returned, and a lookup has missed in the emptied cache after
\* an earlier store
C10_Witness ==
    /\ uiPc = "idle"
    /\ reqWhileDirty
    /\ ~listDirty
    /\ nImages > 0
    /\ storesLeft < MaxUiStores
    /\ proxy_cache = << >>
    /\ \E t \in Threads : tPc[t] = "load"

IsResult(e) == e.kind \in {"updated", "error"}

\* the job whose preview_started is the latest one before position i
StartedBefore(i) ==
    LET S == {k \in 1..(i - 1) : notif[k].kind = "started"}
    IN IF S = {} THEN 0 ELSE notif[SetMax(S)].job

ResultsOf(j) == {i \in 1..Len(notif) : IsResult(notif[i]) /\ notif[i].job = j}

Queued(j) == \E i \in 1..Len(mainQ) : mainQ[i].job = j

\* C1: once a trigger has started a newer job, every Ready/Error the
\* manager publishes comes from the newest job started, never from a
\* superseded one; a job publishes at most one result, and a job that ran to
\* its end without being cancelled has published exactly one.
C1_SingleFlight ==
    /\ \A i \in 1..Len(notif) :
          IsResult(notif[i]) => notif[i].job = StartedBefore(i)
    /\ \A j \in Jobs : Cardinality(ResultsOf(j)) <= 1
    /\ \A j \in Jobs :
          (wPc[j] = "done" /\ ~is_cancelled[j] /\ ~Queued(j) /\ mPc = "loop")
             => Cardinality(ResultsOf(j)) = 1

\* job 2 was started while job 1 was still running, job 1 emitted a result
\* after it was cancelled, and the only results published are job 2's
C1_Witness ==
    /\ nJobs = 2
    /\ wEmit[1] # "none" /\ wEmitFlag[1]
    /\ wPc[2] = "done" /\ ~Queued(2) /\ ~is_cancelled[2]
    /\ Len(notif) = 3
    /\ notif[3].job = 2 /\ IsResult(notif[3])

\* the requests of burst b
BurstOf(b) == {r \in 1..Len(reqBurst) : reqBurst[r] = b}

\* C2: every burst of request_preview calls (each call arriving while the
\* timer armed by the previous one is running) leads to at most one
\* preview_requested, exactly one once its timer has expired; the emission
\* carries the last request of the burst, and only emitted requests are
\* ever given to a worker.
C2_Debounce ==
    /\ Len(emitted) + discarded + (IF timerActive THEN 1 ELSE 0) = bursts
    /\ \A i \in 1..Len(emitted) :
          emitted[i] = SetMax(BurstOf(reqBurst[emitted[i]]))
    /\ \A i, k \in 1..Len(emitted) :
          i # k => reqBurst[emitted[i]] # reqBurst[emitted[k]]
    /\ \A j \in 1..nJobs : \E i \in 1..Len(emitted) : wReq[j].id = emitted[i]

\* a burst of two calls was emitted once, with the second call's request,
\* and a worker runs it
C2_Witness ==
    /\ Len(emitted) >= 1
    /\ Cardinality(BurstOf(reqBurst[emitted[1]])) >= 2
    /\ ~timerActive
    /\ nJobs >= 1
    /\ wReq[1].id = emitted[1]

\* C4: at most one PreviewWorker of the manager is running.
C4_AtMostOneAlive == Cardinality({j \in Jobs : wAlive[j]}) <= 1

\* C5 as stated: no worker emits preview_ready or preview_error while its
\* cancellation flag is set.
C5_Original == \A j \in Jobs : ~wEmitFlag[j]

\* C5 as amended: a flag found set at one of the four checkpoints or in the
\* exception handler ends the run without an emission, and a run that ended
\* this way never emits afterwards (a flag set after the last check the run
\* makes does not stop the emission that follows).
C5_Amended ==
    /\ [][\A j \in Jobs :
            (/\ wPc[j] \in {"cp1", "cp2", "cp3", "cp4", "except"}
             /\ is_cancelled[j]
             /\ wPc'[j] # wPc[j])
               => (/\ wPc'[j] \in {"fin", "killed"}
                   /\ wEmit'[j] = wEmit[j]
                   /\ mainQ' = mainQ)]_vars
    /\ [](\A j \in Jobs : wAbortAt[j] # "none" => wEmit[j] = "none")

\* one run was ended silently by the exception handler and another by a
\* checkpoint
C5_Witness ==
    /\ wAbortAt[1] = "except" /\ wPc[1] = "done" /\ wEmit[1] = "none"
    /\ wAbortAt[2] \in {"cp1", "cp2", "cp3", "cp4"} /\ wPc[2] = "done"

\* C6: every Ready/Error published is preceded by a preview_started, and
\* between two consecutive preview_started notifications (and after the
\* last one) at most one result is published.
C6_StateMachine ==
    /\ \A i \in 1..Len(notif) :
          IsResult(notif[i]) => \E k \in 1..(i - 1) : notif[k].kind = "started"
    /\ \A i, k \in 1..Len(notif) :
          (i < k /\ IsResult(notif[i]) /\ IsResult(notif[k]))
             => \E m \in (i + 1)..(k - 1) : notif[m].kind = "started"

\* two full cycles: started, error, started, updated
C6_Witness ==
    /\ Len(notif) = 4
    /\ notif[1].kind = "started" /\ notif[2].kind = "error"
    /\ notif[3].kind = "started" /\ notif[4].kind = "updated"

\* the main thread is blocked in QThread.wait(50)
WaitingForWorker == mPc \in {"c_wait", "c_wait2"}

\* a caller of the cache is loading or downsampling the image
LoadingImage(t) == tPc[t] = "load"

\* C11: no thread holds the proxy-cache mutex or the manager's current-job
\* mutex while it performs a blocking operation (image load or downsample,
\* waiting for a worker thread to stop).
C11_NoBlockingUnderMutex ==
    /\ \A t \in Threads : LoadingImage(t) => proxy_cache_lock # t
    /\ WaitingForWorker => manager_mutex # "main"

\* 64 + 8 * byteLength(text)
PayloadBits(text) == HEADER_SIZE + 8 * Len(Utf8Encode(text))

Capacity == get_image_capacity(eIn.size[1], eIn.size[2])

\* a payload has been handed to the external codec
CodecReached == codecBits # << >>

\* C12 as stated: an embed whose payload bit count, 64 + 8n, exceeds
\* capacity - 64 never reaches the codec.
C12_Original ==
    (PayloadBits(eIn.text) > Capacity - HEADER_SIZE) => ~CodecReached

\* C12 as amended: an embed whose payload bit count, 64 + 8n, exceeds the
\* capacity (that is, whose data bits 8n exceed capacity - 64) is rejected
\* with an error before the codec is reached.
C12_Amended ==
    (PayloadBits(eIn.text) > Capacity) =>
        /\ ~CodecReached
        /\ ~eOut.ok
        /\ ePc \notin {"embed_codec", "returned"}
        /\ ePc = "done" => ~eResult.has_bit_length

\* a 500-byte text was rejected for an image one bit too small
C12_Witness ==
    /\ ePc = "raised"
    /\ eOut.err = "too_long_for_image"
    /\ Len(Utf8Encode(eIn.text)) = MAX_TEXT_BYTES
    /\ PayloadBits(eIn.text) = Capacity + 1

\* C13: the codec is reached only when the password is non-empty, the
\* text has 1..500 UTF-8 bytes and 64 + 8n <= capacity; a text of more
\* than 500 bytes never reaches it, however large the image.
C13_CodecGuard ==
    /\ CodecReached =>
          /\ eIn.password # ""
          /\ Utf8Encodable(eIn.text)
          /\ Len(Utf8Encode(eIn.text)) >= 1
          /\ Len(Utf8Encode(eIn.text)) <= MAX_TEXT_BYTES
          /\ PayloadBits(eIn.text) <= Capacity
          /\ eCurOk
    /\ Len(Utf8Encode(eIn.text)) > MAX_TEXT_BYTES => ~CodecReached

\* the codec was reached with a 500-byte text that fills the image exactly
C13_Witness ==
    /\ CodecReached
    /\ Len(Utf8Encode(eIn.text)) = MAX_TEXT_BYTES
    /\ PayloadBits(eIn.text) = Capacity

\* C17: a successful embed returns bit_length = 64 + 8n, the length of the
\* payload handed to the codec; the EmbedResult carries it (set and > 0)
\* whenever the blind watermark was applied and carries none when only the
\* visible watermark was.
C17_BitLength ==
    /\ eOut.ok =>
          /\ eOut.bit_length = PayloadBits(eIn.text)
          /\ Len(codecBits) = 1
          /\ eOut.bit_length = Len(codecBits[1])
    /\ (ePc = "done" /\ eOut.ok) =>
          /\ eResult.has_bit_length
          /\ eResult.bit_length = eOut.bit_length
          /\ eResult.bit_length > 0
    /\ (ePc = "done" /\ ~eIn.blind) => ~eResult.has_bit_length

\* both watermarks were applied to an image and the result carries the
\* bit length of a two-byte text
C17_Witness ==
    /\ ePc = "done"
    /\ eIn.visible /\ eIn.blind
    /\ eResult.success
    /\ eResult.has_bit_length
    /\ eResult.bit_length = HEADER_SIZE + 16

\* the 32 bits of b"NCAT", most significant bit of each byte first
MagicBits ==
    <<0, 1, 0, 0, 1, 1, 1, 0,   0, 1, 0, 0, 0, 0, 1, 1,
      0, 1, 0, 0, 0, 0, 0, 1,   0, 1, 0, 1, 0, 1, 0, 0>>

\* _bits_to_text has run on the bits the codec returned
Decoded == xPc = "done" /\ xCodecCalled /\ xOut # Err("codec_failed")

\* C14: a bit buffer of at least 64 bits whose first 32 bits are not the
\* magic fails with the wrong-password / no-watermark error, whatever the
\* rest of the buffer holds (a length out of range, missing data bits).
C14_BadMagic ==
    (Decoded /\ Len(xBits) >= 64 /\ SubSeq(xBits, 1, 32) # MagicBits)
      => xOut = Err("invalid_watermark")

\* a buffer with a wrong magic, a length field of 2^32 - 1 and its last data
\* bit missing has been decoded
C14_Witness ==
    /\ Decoded
    /\ Len(xBits) = 71
    /\ SubSeq(xBits, 1, 32) # MagicBits
    /\ \A i \in 33..64 : xBits[i] = 1
    /\ xOut = Err("invalid_watermark")

\* the 32-bit length field of a buffer of 64 bits or more, read most
\* significant bit first; 65536 stands for every value of 2^16 or more
LengthField(bits) ==
    IF \E i \in 33..48 : bits[i] = 1 THEN 65536 ELSE GroupValue(bits, 49, 64)

\* the four conditions under which a buffer holds a text
Decodable(bits) ==
    /\ Len(bits) >= 64
    /\ SubSeq(bits, 1, 32) = MagicBits
    /\ LengthField(bits) >= 1
    /\ LengthField(bits) <= 500
    /\ Len(bits) >= 64 + 8 * LengthField(bits)

\* C15: decode returns a text only from a buffer of at least 64 bits with
\* the right magic, a length field L in 1..500 and at least 64 + 8 L bits;
\* every other buffer fails with a ValueError of the payload checks, and
\* the text returned has the L bytes that follow the header.
C15_DecodeGuard ==
    Decoded =>
      /\ xOut.ok => Decodable(xBits)
      /\ ~Decodable(xBits) =>
            /\ ~xOut.ok
            /\ xOut.err \in {"missing_header", "invalid_watermark",
                             "invalid_length", "truncated"}
            /\ Len(xBits) < 64 => xOut.err = "missing_header"
      /\ xOut.ok =>
            Utf8Encode(xOut.text)
              = BitsToBytes(SubSeq(xBits, 65, 64 + 8 * LengthField(xBits)))

\* a buffer with the right magic has been refused: a length field of 500 with
\* the last data bit missing, or a length field of 501 with all its data
C15_Witness ==
    /\ Decoded
    /\ Len(xBits) >= 64
    /\ SubSeq(xBits, 1, 32) = MagicBits
    /\ \/ /\ LengthField(xBits) = 500
          /\ Len(xBits) = 64 + 8 * 500 - 1
          /\ xOut = Err("truncated")
       \/ /\ LengthField(xBits) = 501
          /\ Len(xBits) = 64 + 8 * 501
          /\ xOut = Err("invalid_length")

C18_Layout ==
    cPc \in {"encoded", "decoded"} =>
      LET data == Utf8Encode(cText)
          n == Len(data)
      IN /\ Len(cBits) = 64 + 8 * n
         /\ \A i \in 1..Len(cBits) : cBits[i] \in {0, 1}
         /\ SubSeq(cBits, 1, 32) = MagicBits
         /\ LengthField(cBits) = n
         /\ \A j \in 1..n : \A k \in 0..7 :
               cBits[64 + 8 * (j - 1) + k + 1] = (data[j] \div Pow2(7 - k)) % 2

\* a one-character text of several bytes has been encoded
C18_Witness ==
    /\ cPc = "encoded"
    /\ Len(cText) = 1
    /\ cText[1] > 127
    /\ Len(cBits) > 64 + 8

\* the exact product font_size * scaleFactor as a fraction <<n, d>>, with
\* scaleFactor the smaller of proxyW / origW and proxyH / origH
ExactScaledFont ==
    IF sProxy[1] * sOrig[2] <= sProxy[2] * sOrig[1]
    THEN <<sIn.font_size * sProxy[1], sOrig[1]>>
    ELSE <<sIn.font_size * sProxy[2], sOrig[2]>>

\* n / d rounded to the nearest integer, ties to even as Python's round()
RoundNearest(n, d) ==
    LET q == n \div d
        r == n % d
    IN IF 2 * r < d THEN q
       ELSE IF 2 * r > d THEN q + 1
       ELSE IF q % 2 = 0 THEN q ELSE q + 1

\* C19 as stated: previewFontSize = max(8, round(requestedFontSize *
\* scaleFactor)) with scaleFactor = min(proxyW / origW, proxyH / origH).
C19_Original ==
    sPc = "scaled" =>
      sFont = Max(8, RoundNearest(ExactScaledFont[1], ExactScaledFont[2]))

\* C19 amended: previewFontSize = max(8, int(requestedFontSize *
\* scaleFactor)): the product is truncated, not rounded.  It is the floor of
\* the exact product, except that an exact product that is an integer k may
\* come out as k - 1 in double precision.  4000x3000 with a proxy of 800x600
\* scales a font size of 50 to 10.
C19_Amended ==
    sPc = "scaled" =>
      LET n == ExactScaledFont[1]
          d == ExactScaledFont[2]
      IN /\ sFont >= 8
         /\ n % d # 0 => sFont = Max(8, n \div d)
         /\ n % d = 0 => sFont \in {Max(8, n \div d), Max(8, (n \div d) - 1)}
         /\ (sIn.size = <<4000, 3000>> /\ sIn.max_size = 800
               /\ sIn.font_size = 50)
              => (sProxy = <<800, 600>> /\ sFont = 10)

\* a font size of 53 on a 4000x3000 image with an 800x600 proxy has been
\* scaled to 10 (the product is 10.6)
C19_Witness ==
    /\ sPc = "scaled"
    /\ sIn.size = <<4000, 3000>>
    /\ sProxy = <<800, 600>>
    /\ sIn.font_size = 53
    /\ sFont = 10

\* C20: on a cache miss, when the source is wider or taller than
\* maxDimension the proxy's larger dimension is maxDimension and the other
\* is floor(other * maxDimension / larger); otherwise the proxy has the
\* source's dimensions; the original size recorded is the source's.
C20_ProxySize ==
    sPc \in {"proxied", "scaled"} =>
      LET w == sIn.size[1]
          h == sIn.size[2]
          m == sIn.max_size
      IN /\ sOrig = <<w, h>>
         /\ (w > m \/ h > m) =>
              IF w > h THEN sProxy = <<m, (h * m) \div w>>
              ELSE IF h > w THEN sProxy = <<(w * m) \div h, m>>
              ELSE sProxy = <<m, m>>
         /\ ~(w > m \/ h > m) => sProxy = <<w, h>>

\* C21: a preview job passes text, opacity, angle, colour and both spacing
\* ratios of the request to the compositor unchanged; the font size is the
\* only argument it rescales (to at least 8 and at most the size asked).
C21_ArgsUnchanged ==
    (rIn.entry = "preview" /\ rPc = "process_image_object") =>
      /\ rArgs.text = rIn.text
      /\ rArgs.opacity = rIn.opacity
      /\ rArgs.angle = rIn.angle
      /\ rArgs.color = rIn.color
      /\ rArgs.spacing_h_ratio = rIn.spacing_h_ratio
      /\ rArgs.spacing_v_ratio = rIn.spacing_v_ratio
      /\ rArgs.size >= 8
      /\ rArgs.size <= Max(8, rIn.size)

\* a preview at scale 1/5 has called the compositor with a text that has
\* white space around it, a rotation and a colour, and a smaller font
C21_Witness ==
    /\ rIn.entry = "preview"
    /\ rPc = "process_image_object"
    /\ rIn.scale = <<800, 4000>>
    /\ rIn.size = 53
    /\ rArgs.size = 10
    /\ rArgs.text = <<32, 119, 32, 109, 10>>
    /\ rArgs.color = <<255, 0, 0>>
    /\ rArgs.spacing_h_ratio = Ratio(25)

\* the ratio asked for on an axis, in tenths, after default and clamp
AskedTenths(r, axis) ==
    LET v == IF r.given THEN r.tenths ELSE (IF axis = "h" THEN 15 ELSE 12)
    IN IF v < 5 THEN 5 ELSE IF v > 100 THEN 100 ELSE v

\* tileDimension + floor(fontSize * max(0, ratio - 1.0)), ratio in tenths
StepAsked(tile_dim, font_size, v) ==
    tile_dim + (IF v <= 10 THEN 0 ELSE (font_size * (v - 10)) \div 10)

\* C25: on each axis the tiling step is tileDimension + floor(fontSize *
\* max(0, ratio - 1.0)), the ratio first clamped to [0.5, 10.0].
C25_Step ==
    (rPc \in {"row", "paste"} /\ rArgs.size >= 1 /\ rArgs.size <= 500) =>
      /\ rStep[1] = StepAsked(rIn.tile[1], rArgs.size,
                              AskedTenths(rIn.spacing_h_ratio, "h"))
      /\ rStep[2] = StepAsked(rIn.tile[2], rArgs.size,
                              AskedTenths(rIn.spacing_v_ratio, "v"))

\* the positions of C26 for an image, a tile and a pair of steps
ExpectedPastes(img, tile, step) ==
    LET y0 == (-tile[2]) \div 2
        x0 == (-tile[1]) \div 2
        rows == 0..((img[2] + 2 * tile[2]) \div Max(step[2], 1) + 1)
        cols == 0..((img[1] + 2 * tile[1]) \div Max(step[1], 1) + 1)
        X(r, k) == x0 + (IF r % 2 = 1 THEN step[1] \div 2 ELSE 0) + k * step[1]
        Y(r) == y0 + r * step[2]
    IN {p \in {<<X(r, k), Y(r)>> : r \in rows, k \in cols} :
          p[1] < img[1] + tile[1] /\ p[2] < img[2] + tile[2]}

\* C26: the tile is pasted at exactly these positions: row r at
\* y = floor(-tileHeight / 2) + r * stepV while y < imageHeight + tileHeight,
\* and in row r at x = floor(-tileWidth / 2) + (stepH div 2 on odd rows)
\* + k * stepH while x < imageWidth + tileWidth.
C26_Positions ==
    /\ rPc \in {"row", "paste"} =>
          rPastes \subseteq ExpectedPastes(rIn.img, rIn.tile, rStep)
    /\ rOut = "image" => rPastes = ExpectedPastes(rIn.img, rIn.tile, rStep)

\* an image of at least four rows has been tiled with an odd horizontal step
C26_Witness ==
    /\ rOut = "image"
    /\ rRow >= 4
    /\ rStep[1] % 2 = 1
    /\ Cardinality(rPastes) >= 12

\* C27: a render through process or process_image_object fails with
\* InvalidInput and produces no image when the text is blank, the font size
\* is outside 1..500 or the opacity is outside 0..255; process fails with
\* IOError when the source file does not exist.
C27_Validation ==
    /\ (rArgs # NoArgs
          /\ (Strip(rArgs.text) = << >>
                \/ rArgs.size < 1 \/ rArgs.size > 500
                \/ rArgs.opacity < 0 \/ rArgs.opacity > 255)) =>
          /\ rPc \notin {"tile", "row", "paste"}
          /\ rPc = "done" =>
                rOut \in {"FileNotFoundError", "ValueError_text",
                          "ValueError_size", "ValueError_opacity"}
    /\ (rArgs # NoArgs /\ rIn.entry = "process" /\ ~rIn.exists
          /\ rPc = "done") => rOut = "FileNotFoundError"

\* the preview_started notifications published so far
StartedCount(log) == Cardinality({i \in 1..Len(log) : log[i].kind = "started"})

\* C22: on every debounced trigger the manager first cancels the job in
\* flight (flag, then disconnect, then the wait and terminate()), then emits
\* preview_started, then creates and starts the new job; preview_started is
\* emitted exactly once per trigger and never before the old job was
\* cancelled.
C22_TriggerOrder ==
    /\ [](/\ StartedCount(notif) = nJobs
          /\ Len(emitted) = nJobs + (IF mWhy = "start" THEN 1 ELSE 0)
          /\ mPc = "c_disconnect" => is_cancelled[current_worker]
          /\ mPc \in {"c_wait", "c_wait2"} =>
                (is_cancelled[current_worker] /\ ~wConnected[current_worker])
          /\ mPc = "s_start" => current_worker = 0)
    /\ [][StartedCount(notif') # StartedCount(notif) =>
            /\ mPc = "s_start"
            /\ StartedCount(notif') = StartedCount(notif) + 1
            /\ \A i \in 1..nJobs :
                  \/ is_cancelled[i] /\ ~wConnected[i]
                  \/ wPc[i] = "done" /\ ~Queued(i)
            /\ nJobs' = nJobs + 1
            /\ current_worker' = nJobs'
            /\ notif'[Len(notif')] = [kind |-> "started", job |-> nJobs']
            /\ wAlive'[nJobs'] /\ wConnected'[nJobs']]_vars

\* a second trigger found job 1 running, terminated it and started job 2
C22_Witness ==
    /\ nJobs = 2
    /\ is_cancelled[1] /\ ~wConnected[1] /\ wPc[1] = "killed"
    /\ StartedCount(notif) = 2
    /\ wAlive[2]
    /\ mPc = "loop"

ErrorsOf(j) ==
    {i \in 1..Len(notif) : notif[i].kind = "error" /\ notif[i].job = j}

\* the job has run to its end without being cancelled and everything it
\* emitted has been delivered
Settled(j) == wPc[j] = "done" /\ ~is_cancelled[j] /\ ~Queued(j) /\ mPc = "loop"

\* C23: a failure in a preview job that has not been cancelled (no image,
\* blank text, an exception while loading the proxy or compositing) gives
\* exactly one Error and no Ready; an error emitted by a job whose flag is
\* set is not published, and no Error is published for a cancelled job.
C23_Failures ==
    /\ [](\A j \in Jobs :
            /\ wPc[j] \in {"except", "emit_error"} =>
                  (wEmit[j] = "none" /\ ResultsOf(j) = {})
            /\ (Settled(j) /\ (Kind(j) \in {"noimage", "blank"}
                                 \/ wEmit[j] = "error")) =>
                  (Cardinality(ErrorsOf(j)) = 1 /\ ResultsOf(j) = ErrorsOf(j))
            /\ (wEmit[j] = "error" /\ wEmitFlag[j]) => ResultsOf(j) = {})
    /\ [][\A j \in Jobs :
            (\E i \in 1..Len(notif') :
                 i > Len(notif) /\ notif'[i] = [kind |-> "error", job |-> j])
              => ~is_cancelled[j]]_vars

\* job 1 emitted an error after its flag was set and nothing of it was
\* published; job 2 hit an exception and its error was published
C23_Witness ==
    /\ wEmit[1] = "error" /\ wEmitFlag[1] /\ wPc[1] = "done"
    /\ ResultsOf(1) = {}
    /\ Settled(2) /\ Kind(2) = "plain" /\ wEmit[2] = "error"
    /\ Cardinality(ErrorsOf(2)) = 1

\* C24: PreviewDebouncer.cancel() stops the timer and drops the pending
\* request: no preview_requested is emitted afterwards for a request made
\* before the cancel, and none at all until request_preview is called again.
C24_CancelDiscards ==
    /\ [](nReq = cancelledUpTo => (~timerActive /\ pending_config = NoConfig))
    /\ [][Len(emitted') > Len(emitted) =>
            /\ nReq > cancelledUpTo
            /\ emitted'[Len(emitted')] > cancelledUpTo]_vars
    /\ [][cancelledUpTo' # cancelledUpTo =>
            (~timerActive' /\ pending_config' = NoConfig
               /\ emitted' = emitted)]_vars

\* a pending request was dropped by cancel(), and a later request was
\* emitted
C24_Witness ==
    /\ discarded >= 1
    /\ cancelledUpTo >= 1
    /\ Len(emitted) >= 1
    /\ emitted[Len(emitted)] > cancelledUpTo
    /\ \A i \in 1..Len(emitted) : emitted[i] # cancelledUpTo

\* C29: capacity = floor(w * h / 64): the one integer c with
\* 64 c <= w h < 64 (c + 1); capacity(512, 512) = 4096.
C29_Capacity ==
    capPc \in {"capacity", "done"} =>
      /\ 64 * capBits <= capIn[1] * capIn[2]
      /\ capIn[1] * capIn[2] < 64 * (capBits + 1)
      /\ capIn = <<512, 512>> => capBits = 4096

\* the capacity of an image whose area is not a multiple of 64
C29_Witness ==
    /\ capPc = "capacity"
    /\ (capIn[1] * capIn[2]) % 64 = 63
    /\ capBits >= 1

\* C28: maxTextBytes = min(max(0, floor((capacity - 64) / 8)), 500): 0 when
\* capacity <= 71 (also below 64), never negative, never above 500, and 500
\* for 512x512.
C28_MaxTextBytes ==
    capPc = "done" =>
      /\ capMax >= 0
      /\ capMax <= 500
      /\ capBits <= 71 => capMax = 0
      /\ (capBits >= 72 /\ capBits < 64 + 8 * 501) =>
            (8 * capMax <= capBits - 64 /\ capBits - 64 < 8 * (capMax + 1))
      /\ capBits >= 64 + 8 * 500 => capMax = 500
      /\ capIn = <<512, 512>> => capMax = 500

\* an image with a capacity below the header has a maximum of 0
C28_Witness ==
    /\ capPc = "done"
    /\ capBits >= 1
    /\ capBits < 64
    /\ capMax = 0

\* the seeds CPython computes for the passwords of SeedPasswords
KnownSeed(password) ==
    CASE password = "a"  -> 1598734322
      [] password = "ab" -> 627605792
      [] password = "pw" -> 313879023

\* C30: the seed is a function of the password alone, lies in 0..2^31-2 and
\* is the first 8 digest bytes, big-endian, mod 2^31-1; every embed and
\* every extract gives that one seed as the image key and as the payload
\* key, so an extract with the embedding password uses the same key pair.
C30_Seed ==
    \A i \in 1..Len(seedCalls) :
      LET c == seedCalls[i]
      IN  /\ c.password_img = c.password_wm
          /\ c.password_img >= 0
          /\ c.password_img <= 2147483646
          /\ c.password_img = KnownSeed(c.password)
          /\ \A j \in 1..Len(seedCalls) :
                seedCalls[j].password = c.password =>
                  /\ seedCalls[j].password_img = c.password_img
                  /\ seedCalls[j].password_wm = c.password_wm

\* an embed, then an extract with its password, then one with another
C30_Witness ==
    /\ Len(seedCalls) = 3
    /\ seedCalls[1].op = "embed"
    /\ seedCalls[2].op = "extract"
    /\ seedCalls[2].password = seedCalls[1].password
    /\ seedCalls[2].password_img = seedCalls[1].password_img
    /\ seedCalls[3].op = "extract"
    /\ seedCalls[3].password # seedCalls[1].password
    /\ seedCalls[3].password_img # seedCalls[1].password_img

\* the signals of a run of k images that nothing interrupts
ExpectedSignals(config) ==
    [j \in 1..(2 * config.n + 1) |->
        IF j = 2 * config.n + 1
        THEN FinishedAll([i \in 1..config.n |-> ProcessSingleImage(config, i)])
        ELSE IF j % 2 = 1 THEN Progress((j + 1) \div 2, config.n)
        ELSE ImageCompleted(ProcessSingleImage(config, j \div 2))]

Uninterrupted ==
    /\ runPc # "idle"
    /\ runIn.n >= 1
    /\ RunConfigError(runIn) = "none"
    /\ runIn.crash = 0
    /\ ~runCancelAt.called

\* C31: with a valid configuration, k >= 1 images and no cancellation the
\* worker emits progress(i, k) then image_completed for i = 1..k in input
\* order, then finished_all with the k results in input order; an image that
\* fails gives a result with success = FALSE and the later images are still
\* processed.
C31_BatchOrder ==
    Uninterrupted =>
      /\ Len(runSignals) <= 2 * runIn.n + 1
      /\ \A j \in 1..Len(runSignals) : runSignals[j] = ExpectedSignals(runIn)[j]
      /\ runPc = "done" =>
            /\ Len(runSignals) = 2 * runIn.n + 1
            /\ Len(runResults) = runIn.n
            /\ \A i \in 1..runIn.n :
                  /\ runResults[i].image = i
                  /\ runResults[i].success = (i \notin runIn.fails)

\* three images, the second fails, the third is processed all the same
C31_Witness ==
    /\ Uninterrupted
    /\ runPc = "done"
    /\ runIn.n = 3
    /\ runIn.fails = {2}
    /\ Len(runResults) = 3
    /\ ~runResults[2].success
    /\ runResults[3].success
    /\ runSignals[7].sig = "finished_all"

FinishedCount(signals) ==
    Cardinality({i \in 1..Len(signals) : signals[i].sig = "finished_all"})

\* the run returned at the empty list or at a check of the configuration
EarlyReturn ==
    \/ runIn.n = 0
    \/ runIn.crash # -1 /\ RunConfigError(runIn) # "none"

FirstResults(m) == [i \in 1..m |-> ProcessSingleImage(runIn, i)]

\* C39 as stated: once cancel() has been called no progress signal of a
\* further image is emitted, and finished_all carries the results of the
\* images that had emitted progress before the call.
C39_Original ==
    (runCancelAt.called /\ runIn.crash = 0) =>
      /\ ProgressCount(runSignals) = runCancelAt.progress
      /\ runPc = "done" => runResults = FirstResults(runCancelAt.progress)

\* C39, amended: after cancel() the worker starts no image whose test of
\* _is_cancelled comes after the call; the image that had passed its test,
\* if any, is completed, and finished_all carries exactly the results of
\* the images that had passed the test, in input order.
C39_Amended ==
    runCancelAt.called =>
      /\ ProgressCount(runSignals) <= runCancelAt.passed
      /\ Len(runResults) <= runCancelAt.passed
      /\ (runPc = "done" /\ runIn.crash = 0) =>
            /\ runResults = FirstResults(runCancelAt.passed)
            /\ ProgressCount(runSignals) = runCancelAt.passed
            /\ runSignals[Len(runSignals)] = FinishedAll(runResults)

\* cancel() between the test of the flag and the progress signal of the
\* second of three images
C39_Witness ==
    /\ runPc = "done"
    /\ runIn.n = 3
    /\ runIn.crash = 0
    /\ runCancelAt = [called |-> TRUE, passed |-> 2, progress |-> 1]
    /\ Len(runResults) = 2

\* C32: a finished notification empties the slot only when the job that
\* finished is the job in the slot: the completion of job A, delivered after
\* job B was started, neither empties the slot holding B nor schedules B for
\* deletion while B runs.
C32_OwnFinishOnly ==
    /\ [](\A i \in 1..Len(mainQ) :
            (mainQ[i].kind = "finished" /\ wConnected[mainQ[i].job]) =>
                current_worker = mainQ[i].job)
    /\ [][(mPc = "loop" /\ mPc' = "loop"
            /\ current_worker # 0 /\ current_worker' = 0) =>
              /\ mainQ # << >>
              /\ Head(mainQ) = [kind |-> "finished", job |-> current_worker]
              /\ ~wAlive[current_worker]]_vars

\* the finished signal of job 1 is about to be delivered while job 2 holds
\* the slot and runs
C32_Witness ==
    /\ mPc = "loop"
    /\ mainQ # << >>
    /\ Head(mainQ) = [kind |-> "finished", job |-> 1]
    /\ current_worker = 2
    /\ wAlive[2]

\* C33: once clear_proxy_cache has returned, no lookup returns a proxy
\* built from a source load made before it: a caller that had loaded its
\* source and not yet stored the proxy when the clear ran leaves no entry
\* that a later lookup hits.
C33_NoStaleProxy ==
    /\ stale.bufs = {}
    /\ ~stale.hit

\* C34: a preview job that was stopped, forced termination included, does
\* not hold the proxy-cache mutex, so that a later _get_cached_proxy or
\* clear_proxy_cache can take it.
C34_MutexReleased ==
    \A t \in Threads : tPc[t] = "killed" => proxy_cache_lock # t

\* C35: when requests stop and cancel() is not called, the last request is
\* followed by exactly one preview_updated or preview_error computed from
\* that request, and the preview does not stay in the started state: a
\* pending request leads to a job unless a newer request replaces it, a job
\* works on the request that was pending when the timer fired, and a job
\* leads to exactly one published result unless a newer trigger cancels it.
C35_LastRequestServed ==
    /\ [](\A j \in Jobs :
            /\ Cardinality(ResultsOf(j)) <= 1
            /\ wPc[j] # "none" => (j <= Len(emitted) /\ wReq[j].id = emitted[j])
            /\ \A i \in ResultsOf(j) :
                  wReq[j].kind \in {"blank", "noimage"} => notif[i].kind = "error")
    /\ \A r \in 1..MaxRequests :
          (pending_config.id = r /\ nJobs < MaxJobs)
             ~> (nReq > r \/ \E j \in Jobs : wReq[j].id = r)
    /\ \A j \in Jobs :
          (wPc[j] # "none")
             ~> (is_cancelled[j]
                   \/ (/\ Cardinality(ResultsOf(j)) = 1
                       /\ notif[Len(notif)].kind # "started"))

\* the second of two requests was served by job 2 after job 1, which
\* served the first, was superseded
C35_Witness ==
    /\ nReq = 2
    /\ wReq[2].id = 2
    /\ is_cancelled[1]
    /\ ~is_cancelled[2]
    /\ Cardinality(ResultsOf(2)) = 1
    /\ notif[Len(notif)] = [kind |-> "updated", job |-> 2]
    /\ mainQ = << >>

\* C36: for every source of at least 1 x 1 and every max_size >= 1 both
\* proxy dimensions computed by _get_cached_proxy are at least 1, and
\* neither exceeds the larger of max_size and the source's dimension.
C36_ProxyDimensions ==
    sPc \in {"proxied", "scaled", "raised"} =>
      /\ sProxy[1] >= 1
      /\ sProxy[2] >= 1
      /\ sProxy[1] <= Max(sIn.max_size, sIn.size[1])
      /\ sProxy[2] <= Max(sIn.max_size, sIn.size[2])

\* C37: whenever the row and column loops of _tile_watermark run, for a
\* font size in 1..500 and spacing ratios in [0.5, 10.0], both steps are at
\* least 1, so the loops terminate; this includes the tile of a text whose
\* measured box has zero width or height.
C37_StepsPositive ==
    (rPc \in {"row", "paste"} /\ rArgs.size >= 1 /\ rArgs.size <= 500)
      => (rStep[1] >= 1 /\ rStep[2] >= 1)

\* C3: for every text whose UTF-8 encoding has 1..500 bytes, decoding the
\* encoded bits returns the text itself.
C3_RoundTrip ==
    (cPc = "decoded" /\ Len(Utf8Encode(cText)) >= 1
        /\ Len(Utf8Encode(cText)) <= MAX_TEXT_BYTES)
      => (cOut.ok /\ cOut.text = cText)

\* a 500-byte text and a text of multi-byte code points have made the trip
C3_Witness ==
    /\ cPc = "decoded"
    /\ Len(Utf8Encode(cText)) = MAX_TEXT_BYTES
    /\ \E i \in 1..Len(cText) : cText[i] > 127
    /\ cOut.ok

====
